---------------------------- MODULE Spec2Model ----------------------------
(***************************************************************************)
(* UniBase storage core: the lock manager (lock_manager.cpp), the          *)
(* transaction manager (transaction_manager.cpp), the record file handle   *)
(* (rm_file_handle.cpp) and the forward scan (rm_scan.cpp).                *)
(*                                                                         *)
(* start_ts / next_timestamp_ (transaction_manager.cpp:20) and the log     *)
(* manager flush (lines 52-54, 103-105) are left out: nothing below reads  *)
(* them and they change no other state.  The buffer pool is taken to       *)
(* deliver every page it is asked for.                                     *)
(***************************************************************************)
EXTENDS Integers, Sequences, FiniteSets, TLC

\* ------------------------------------------------------------------ bounds
\* transaction ids TransactionManager::begin hands out: 0 .. MaxTxn-1
MaxTxn == 1
\* record-level lock ids besides the one table-level lock id
MaxLockRid == 1
\* file_hdr_.num_records_per_page of the one record file
NumRecordsPerPage == 2
\* the file grows to at most this many pages, the header page included, where
\* record contents matter (SpecRM, SpecTx)
MaxPages == 3
\* and to at most this many where only one record content is written
\* (SpecFree, SpecScan)
MaxListPages == 4
\* write records a transaction collects before it ends
MaxWrites == 3
\* record contents a caller passes: 1 .. MaxBuf (0 is a zero-filled slot)
MaxBuf == 2
\* is_compatible calls whose results are kept side by side
MaxQueries == 2

\* --------------------------------------------------------------- variables
VARIABLES
    lock_table,     \* LockManager::lock_table_ : LockDataId -> LockRequestQueue
    objects,        \* the Transaction objects that exist (by id)
    txn_state,      \* Transaction::state_
    lock_set,       \* Transaction::lock_set_
    write_set,      \* Transaction::write_set_
    txn_map,        \* TransactionManager::txn_map (ids)
    next_txn_id_,   \* TransactionManager::next_txn_id_
    ret,            \* the last call and what it returned or threw
    released,       \* history: an unlock of this transaction returned true since its begin
    file_hdr_,      \* RmFileHandle::file_hdr_ : num_pages, first_free_page_no
    pages,          \* the data pages: page_no -> page header, bitmap, slots
    rm_ret,         \* the last record-manager call and what it returned or threw
    last_write,     \* history: per rid, the bytes last written and not deleted since
    scan,           \* the RmScan object: open, rid_, and the rids it yielded so far
    rt,             \* history of an insert/delete/insert round trip in progress
    tx_snap,        \* history: the file before the first write of the write-set
    cq,             \* the is_compatible calls made so far: arguments and result
    pin_count,      \* buffer pool: pin count of each page of the file
    pin_log,        \* the pages the last call wrote, and those it unpinned dirty
    race            \* two caller threads inside insert_record / delete_record

\* the lock and transaction managers' side
lmvars == <<lock_table, objects, txn_state, lock_set, write_set, txn_map,
            next_txn_id_, ret, released>>

\* the record file's side
rmvars == <<file_hdr_, pages, rm_ret, last_write, scan, rt, tx_snap>>

\* what only the specifications of single functions use
auxvars == <<cq, pin_count, pin_log, race>>

vars == <<lmvars, rmvars, auxvars>>

\* ------------------------------------------------------------ lock manager
\* enum class LockMode
LockMode == {"SHARED", "EXLUCSIVE", "INTENTION_SHARED", "INTENTION_EXCLUSIVE", "S_IX"}

\* enum class GroupLockMode, in declaration order (the order of the rows and
\* columns of compat, lock_manager.cpp:181)
GroupLockModeOrder == <<"NON_LOCK", "IS", "IX", "S", "X", "SIX">>

GroupLockMode == {GroupLockModeOrder[i] : i \in 1..Len(GroupLockModeOrder)}

\* static_cast<int>(GroupLockMode)
GroupIndex(g) == (CHOOSE i \in 1..Len(GroupLockModeOrder) : GroupLockModeOrder[i] = g) - 1

to_group_lock_mode(lock_mode) ==
    CASE lock_mode = "SHARED" -> "S"
      [] lock_mode = "EXLUCSIVE" -> "X"
      [] lock_mode = "INTENTION_SHARED" -> "IS"
      [] lock_mode = "INTENTION_EXCLUSIVE" -> "IX"
      [] lock_mode = "S_IX" -> "SIX"
      [] OTHER -> "NON_LOCK"

compat ==
    << <<TRUE, TRUE,  TRUE,  TRUE,  TRUE,  TRUE>>,
       <<TRUE, TRUE,  TRUE,  TRUE,  FALSE, TRUE>>,
       <<TRUE, TRUE,  TRUE,  FALSE, FALSE, FALSE>>,
       <<TRUE, TRUE,  FALSE, TRUE,  FALSE, FALSE>>,
       <<TRUE, FALSE, FALSE, FALSE, FALSE, FALSE>>,
       <<TRUE, TRUE,  FALSE, FALSE, FALSE, FALSE>> >>

\* an is_compatible that indexes compat by the priority of the group mode
\* (NON_LOCK, IS, IX, S, SIX, X), not by the enum's value
is_compatible_ByPriority(lhs, rhs) ==
    LET byPriority == <<"NON_LOCK", "IS", "IX", "S", "SIX", "X">>
        l == CHOOSE i \in 1..6 : byPriority[i] = to_group_lock_mode(lhs)
        r == CHOOSE i \in 1..6 : byPriority[i] = to_group_lock_mode(rhs)
    IN  compat[l][r] /\ compat[r][l]

is_compatible(lhs, rhs) ==
    LET l == GroupIndex(to_group_lock_mode(lhs))
        r == GroupIndex(to_group_lock_mode(rhs))
    IN  compat[l + 1][r + 1] /\ compat[r + 1][l + 1]

\* the LockMode arguments of a call: the five enumerators and a value that
\* names none of them (the default case of to_group_lock_mode)
ModeArgs == LockMode \cup {"NO_MODE"}

\* a call of LockManager::is_compatible, kept with its result
IsCompatible(lhs, rhs) ==
    /\ cq' = cq \cup {[lhs |-> lhs, rhs |-> rhs, out |-> is_compatible(lhs, rhs)]}
    /\ Cardinality(cq') <= MaxQueries
    /\ cq' # cq
    /\ UNCHANGED <<lmvars, rmvars, pin_count, pin_log, race>>

priority(m) ==
    CASE m = "NON_LOCK" -> 0
      [] m = "IS" -> 1
      [] m = "IX" -> 2
      [] m = "S" -> 3
      [] m = "SIX" -> 4
      [] m = "X" -> 5
      [] OTHER -> 0

RECURSIVE GroupModeFrom(_, _, _)
GroupModeFrom(rq, i, mode) ==
    IF i > Len(rq) THEN mode
    ELSE IF ~rq[i].granted_ THEN GroupModeFrom(rq, i + 1, mode)
    ELSE LET gm == to_group_lock_mode(rq[i].lock_mode_)
         IN  GroupModeFrom(rq, i + 1, IF priority(gm) > priority(mode) THEN gm ELSE mode)

\* a group mode that is the mode of the queue's last request
update_group_lock_mode_Last(rq) ==
    [request_queue_ |-> rq,
     group_lock_mode_ |-> IF rq = <<>> THEN "NON_LOCK"
                          ELSE to_group_lock_mode(rq[Len(rq)].lock_mode_)]

\* LockManager::update_group_lock_mode
update_group_lock_mode(rq) ==
    [request_queue_ |-> rq, group_lock_mode_ |-> GroupModeFrom(rq, 1, "NON_LOCK")]

\* LockDataId: one table, and MaxLockRid records of it
TableLockId == [fd_ |-> 1, type_ |-> "TABLE", rid_ |-> 0]

LockDataIds == {TableLockId} \cup {[fd_ |-> 1, type_ |-> "RECORD", rid_ |-> r] : r \in 1..MaxLockRid}

\* ids of Transaction objects: begin(nullptr) creates 0 .. MaxTxn-1; one more
\* object, MaxTxn, is constructed by a caller itself and starts in DEFAULT
TxnIds == 0..MaxTxn

TransactionState == {"DEFAULT", "GROWING", "SHRINKING", "COMMITTED", "ABORTED"}

\* ret: the call and what it returned or threw
NoRet == [op |-> "none", txn |-> 0, val |-> "none"]

Returned(op, t, val) == [op |-> op, txn |-> t, val |-> val]

\* std::deque::erase of the element at position i
EraseAt(rq, i) == [k \in 1..(Len(rq) - 1) |-> IF k < i THEN rq[k] ELSE rq[k + 1]]

\* the first request of txn t in the queue, 0 when there is none
FirstOf(rq, t) ==
    IF \E i \in 1..Len(rq) : rq[i].txn_id_ = t
    THEN CHOOSE i \in 1..Len(rq) : rq[i].txn_id_ = t /\ \A k \in 1..(i - 1) : rq[k].txn_id_ # t
    ELSE 0

\* lock_manager.cpp:125-133: some other transaction's granted request is
\* incompatible with the mode asked for
\* an upgrade check that skips the other transactions' requests, not its own
UpgradeConflict_Own(rq, t, lock_mode) ==
    \E k \in 1..Len(rq) :
        rq[k].txn_id_ = t /\ rq[k].granted_ /\ ~is_compatible(lock_mode, rq[k].lock_mode_)

UpgradeConflict(rq, t, lock_mode) ==
    \E k \in 1..Len(rq) :
        rq[k].txn_id_ # t /\ rq[k].granted_ /\ ~is_compatible(lock_mode, rq[k].lock_mode_)

\* lock_manager.cpp:145-149
\* a grant check that takes every granted request for a conflict
GrantConflict_AnyGranted(rq, lock_mode) == \E k \in 1..Len(rq) : rq[k].granted_

\* a grant check that looks at the requests that are not granted
GrantConflict_Ungranted(rq, lock_mode) ==
    \E k \in 1..Len(rq) : ~rq[k].granted_ /\ ~is_compatible(lock_mode, rq[k].lock_mode_)

GrantConflict(rq, lock_mode) ==
    \E k \in 1..Len(rq) : rq[k].granted_ /\ ~is_compatible(lock_mode, rq[k].lock_mode_)

\* lock_table_[lock_data_id]: the queue, default-constructed when absent
QueueAt(id) ==
    IF id \in DOMAIN lock_table THEN lock_table[id]
    ELSE [request_queue_ |-> <<>>, group_lock_mode_ |-> "NON_LOCK"]

PutQueue(id, q) == [x \in DOMAIN lock_table \cup {id} |-> IF x = id THEN q ELSE lock_table[x]]

\* LockManager::lock
Lock(t, id, lock_mode) ==
    /\ t \in objects
    /\ UNCHANGED <<objects, write_set, txn_map, next_txn_id_, released, rmvars>>
    /\ IF txn_state[t] = "SHRINKING"
       THEN /\ ret' = Returned("lock", t, "LOCK_ON_SHIRINKING")
            /\ UNCHANGED <<lock_table, txn_state, lock_set>>
       ELSE LET rq == QueueAt(id).request_queue_
                i  == FirstOf(rq, t)
            IN  IF i # 0
                THEN IF rq[i].granted_ /\ rq[i].lock_mode_ = lock_mode
                     THEN /\ ret' = Returned("lock", t, "true")
                          /\ UNCHANGED <<lock_table, txn_state, lock_set>>
                     ELSE IF UpgradeConflict(rq, t, lock_mode)
                     THEN /\ ret' = Returned("lock", t, "UPGRADE_CONFLICT")
                          /\ UNCHANGED <<lock_table, txn_state, lock_set>>
                     ELSE /\ lock_table' = PutQueue(id, update_group_lock_mode(
                                 [rq EXCEPT ![i].lock_mode_ = lock_mode, ![i].granted_ = TRUE]))
                          /\ lock_set' = [lock_set EXCEPT ![t] = @ \cup {id}]
                          /\ ret' = Returned("lock", t, "true")
                          /\ UNCHANGED txn_state
                ELSE IF GrantConflict(rq, lock_mode)
                     THEN /\ ret' = Returned("lock", t, "false")
                          /\ UNCHANGED <<lock_table, txn_state, lock_set>>
                     ELSE /\ lock_table' = PutQueue(id, update_group_lock_mode(
                                 Append(rq, [txn_id_ |-> t, lock_mode_ |-> lock_mode, granted_ |-> TRUE])))
                          /\ lock_set' = [lock_set EXCEPT ![t] = @ \cup {id}]
                          /\ txn_state' = [txn_state EXCEPT ![t] =
                                 IF @ = "DEFAULT" THEN "GROWING" ELSE @]
                          /\ ret' = Returned("lock", t, "true")

\* LockManager::unlock on lock table tbl: whether it finds the request (and
\* returns true), and the table it leaves
unlock_found(tbl, t, id) ==
    id \in DOMAIN tbl /\ FirstOf(tbl[id].request_queue_, t) # 0

unlock_table(tbl, t, id) ==
    IF ~unlock_found(tbl, t, id) THEN tbl
    ELSE LET rq  == tbl[id].request_queue_
             rq2 == EraseAt(rq, FirstOf(rq, t))
         IN  IF rq2 = <<>>
             THEN [x \in DOMAIN tbl \ {id} |-> tbl[x]]
             ELSE [tbl EXCEPT ![id] = update_group_lock_mode(rq2)]

\* lock_manager.cpp:88-90
\* an unlock that enters SHRINKING whatever the state
unlock_state_Always(s) == "SHRINKING"

unlock_state(s) == IF s = "GROWING" THEN "SHRINKING" ELSE s

\* a caller's own call of LockManager::unlock
Unlock(t, id) ==
    /\ t \in objects
    /\ lock_table' = unlock_table(lock_table, t, id)
    /\ IF unlock_found(lock_table, t, id)
       THEN /\ lock_set' = [lock_set EXCEPT ![t] = @ \ {id}]
            /\ txn_state' = [txn_state EXCEPT ![t] = unlock_state(@)]
            /\ released' = [released EXCEPT ![t] = TRUE]
            /\ ret' = Returned("unlock", t, "true")
       ELSE /\ UNCHANGED <<lock_set, txn_state, released>>
            /\ ret' = Returned("unlock", t, "false")
    /\ UNCHANGED <<objects, write_set, txn_map, next_txn_id_, rmvars>>

\* ---------------------------------------------------------- record manager
RM_NO_PAGE == -1

RM_FIRST_RECORD_PAGE == 1

Bufs == 1..MaxBuf

Slots == 0..(NumRecordsPerPage - 1)

\* the rids a caller may pass: any page number from 0 to MaxPages (so below
\* FIRST_RECORD_PAGE and beyond num_pages too), any slot of a page
Rids == [page_no : 0..MaxPages, slot_no : Slots]

\* every rid of either bound
AllRids == [page_no : 0..MaxListPages, slot_no : Slots] \cup Rids

NoRid == [page_no |-> RM_NO_PAGE, slot_no |-> RM_NO_PAGE]

\* Bitmap (a sequence of bits, bit i at index i+1)
Bitmap_is_set(bm, pos) == bm[pos + 1]

Bitmap_set(bm, pos) == [bm EXCEPT ![pos + 1] = TRUE]

Bitmap_reset(bm, pos) == [bm EXCEPT ![pos + 1] = FALSE]

Bitmap_next_bit(bit, bm, max_n, curr) ==
    LET after == {i \in (curr + 1)..(max_n - 1) : bm[i + 1] = bit}
    IN  IF after = {} THEN max_n
        ELSE CHOOSE i \in after : \A k \in after : i <= k

Bitmap_first_bit(bit, bm, max_n) == Bitmap_next_bit(bit, bm, max_n, -1)

\* a page as BufferPoolManager::new_page hands it out, zero-filled
ZeroPage ==
    [num_records |-> 0, next_free_page_no |-> 0,
     bitmap |-> [i \in 1..NumRecordsPerPage |-> FALSE],
     slots |-> [i \in 1..NumRecordsPerPage |-> 0]]

\* the file as one value: the operations below are functions of it
File == [hdr |-> file_hdr_, pages |-> pages]

\* what an operation leaves and returns: err is "ok" or the exception thrown
RmResult(f, err, rid, rec) == [f |-> f, err |-> err, rid |-> rid, rec |-> rec]

\* RmFileHandle::fetch_page_handle: the page exists
PageExists(f, page_no) == page_no >= RM_FIRST_RECORD_PAGE /\ page_no < f.hdr.num_pages

\* RmFileHandle::get_record
get_record(f, rid) ==
    IF ~PageExists(f, rid.page_no) THEN RmResult(f, "PageNotExistError", rid, 0)
    ELSE IF ~Bitmap_is_set(f.pages[rid.page_no].bitmap, rid.slot_no)
    THEN RmResult(f, "RecordNotFoundError", rid, 0)
    ELSE RmResult(f, "ok", rid, f.pages[rid.page_no].slots[rid.slot_no + 1])

\* RmFileHandle::create_new_page_handle: the file and the new page's number
create_new_page_handle(f) ==
    LET new_no == f.hdr.num_pages
        page   == [ZeroPage EXCEPT !.num_records = 0,
                                   !.next_free_page_no = f.hdr.first_free_page_no]
    IN  [f |-> [hdr |-> [num_pages |-> f.hdr.num_pages + 1, first_free_page_no |-> new_no],
                pages |-> [p \in (DOMAIN f.pages) \cup {new_no} |->
                              IF p = new_no THEN page ELSE f.pages[p]]],
         page_no |-> new_no]

\* RmFileHandle::create_page_handle
create_page_handle(f) ==
    IF f.hdr.first_free_page_no = RM_NO_PAGE
    THEN create_new_page_handle(f)
    ELSE [f |-> f, page_no |-> f.hdr.first_free_page_no]

\* an insert that leaves a page it fills at the head of the free list
insert_record_KeepHead(f, buf) ==
    LET c       == create_page_handle(f)
        page_no == c.page_no
    IN  IF ~PageExists(c.f, page_no) THEN RmResult(c.f, "PageNotExistError", NoRid, 0)
        ELSE
        LET pg      == c.f.pages[page_no]
            slot_no == Bitmap_first_bit(FALSE, pg.bitmap, NumRecordsPerPage)
        IN  IF slot_no >= NumRecordsPerPage
            THEN RmResult(c.f, "InternalError", NoRid, 0)
            ELSE
            LET pg1 == [pg EXCEPT !.slots[slot_no + 1] = buf,
                                  !.bitmap = Bitmap_set(pg.bitmap, slot_no),
                                  !.num_records = @ + 1]
            IN  RmResult([hdr |-> c.f.hdr, pages |-> [c.f.pages EXCEPT ![page_no] = pg1]],
                         "ok", [page_no |-> page_no, slot_no |-> slot_no], buf)

\* RmFileHandle::insert_record(char* buf, Context*)
insert_record(f, buf) ==
    LET c       == create_page_handle(f)
        page_no == c.page_no
    IN  IF ~PageExists(c.f, page_no) THEN RmResult(c.f, "PageNotExistError", NoRid, 0)
        ELSE
        LET pg      == c.f.pages[page_no]
            slot_no == Bitmap_first_bit(FALSE, pg.bitmap, NumRecordsPerPage)
        IN  IF slot_no >= NumRecordsPerPage
            THEN RmResult(c.f, "InternalError", NoRid, 0)
            ELSE
            LET pg1  == [pg EXCEPT !.slots[slot_no + 1] = buf,
                                   !.bitmap = Bitmap_set(pg.bitmap, slot_no),
                                   !.num_records = @ + 1]
                full == pg1.num_records = NumRecordsPerPage
                hdr1 == IF full
                        THEN [c.f.hdr EXCEPT !.first_free_page_no = pg1.next_free_page_no]
                        ELSE c.f.hdr
                pg2  == IF full THEN [pg1 EXCEPT !.next_free_page_no = RM_NO_PAGE] ELSE pg1
            IN  RmResult([hdr |-> hdr1, pages |-> [c.f.pages EXCEPT ![page_no] = pg2]],
                         "ok", [page_no |-> page_no, slot_no |-> slot_no], buf)

\* rm_file_handle.cpp:73-84: walk the free list from prev and unlink target;
\* returns the pages and whether a fetch_page_handle on the way threw
RECURSIVE UnlinkFrom(_, _, _, _, _)
UnlinkFrom(f, pgs, prev, target, fuel) ==
    IF prev = RM_NO_PAGE \/ fuel = 0 THEN [pages |-> pgs, threw |-> FALSE]
    ELSE IF ~PageExists(f, prev) THEN [pages |-> pgs, threw |-> TRUE]
    ELSE IF pgs[prev].next_free_page_no = target
    THEN [pages |-> [pgs EXCEPT ![prev].next_free_page_no = pgs[target].next_free_page_no],
          threw |-> FALSE]
    ELSE UnlinkFrom(f, pgs, pgs[prev].next_free_page_no, target, fuel - 1)

\* an explicit-rid insert that copies the bytes before it tests the bit
insert_record_at_WriteFirst(f, rid, buf) ==
    IF ~PageExists(f, rid.page_no) THEN RmResult(f, "PageNotExistError", rid, 0)
    ELSE IF Bitmap_is_set(f.pages[rid.page_no].bitmap, rid.slot_no)
    THEN RmResult([f EXCEPT !.pages[rid.page_no].slots[rid.slot_no + 1] = buf],
                  "RecordNotFoundError", rid, 0)
    ELSE
    LET target == rid.page_no
        pg1    == [f.pages[target] EXCEPT !.slots[rid.slot_no + 1] = buf,
                                          !.bitmap = Bitmap_set(@, rid.slot_no),
                                          !.num_records = @ + 1]
        pgs1   == [f.pages EXCEPT ![target] = pg1]
    IN  IF pg1.num_records # NumRecordsPerPage
        THEN RmResult([hdr |-> f.hdr, pages |-> pgs1], "ok", rid, buf)
        ELSE IF f.hdr.first_free_page_no = target
        THEN RmResult([hdr |-> [f.hdr EXCEPT !.first_free_page_no = pg1.next_free_page_no],
                       pages |-> [pgs1 EXCEPT ![target].next_free_page_no = RM_NO_PAGE]],
                      "ok", rid, buf)
        ELSE
        LET u == UnlinkFrom(f, pgs1, f.hdr.first_free_page_no, target, f.hdr.num_pages)
        IN  RmResult([hdr |-> f.hdr,
                      pages |-> [u.pages EXCEPT ![target].next_free_page_no = RM_NO_PAGE]],
                     "ok", rid, buf)

\* an explicit-rid insert that takes a page it fills off the free list the
\* way insert_record(buf) does, as if the page were the head
insert_record_at_AsHead(f, rid, buf) ==
    IF ~PageExists(f, rid.page_no) THEN RmResult(f, "PageNotExistError", rid, 0)
    ELSE IF Bitmap_is_set(f.pages[rid.page_no].bitmap, rid.slot_no)
    THEN RmResult(f, "RecordNotFoundError", rid, 0)
    ELSE
    LET target == rid.page_no
        pg1    == [f.pages[target] EXCEPT !.slots[rid.slot_no + 1] = buf,
                                          !.bitmap = Bitmap_set(@, rid.slot_no),
                                          !.num_records = @ + 1]
        pgs1   == [f.pages EXCEPT ![target] = pg1]
    IN  IF pg1.num_records # NumRecordsPerPage
        THEN RmResult([hdr |-> f.hdr, pages |-> pgs1], "ok", rid, buf)
        ELSE RmResult([hdr |-> [f.hdr EXCEPT !.first_free_page_no = pg1.next_free_page_no],
                       pages |-> [pgs1 EXCEPT ![target].next_free_page_no = RM_NO_PAGE]],
                      "ok", rid, buf)

\* RmFileHandle::insert_record(const Rid&, char* buf)
insert_record_at(f, rid, buf) ==
    IF ~PageExists(f, rid.page_no) THEN RmResult(f, "PageNotExistError", rid, 0)
    ELSE IF Bitmap_is_set(f.pages[rid.page_no].bitmap, rid.slot_no)
    THEN RmResult(f, "RecordNotFoundError", rid, 0)
    ELSE
    LET target == rid.page_no
        pg1    == [f.pages[target] EXCEPT !.slots[rid.slot_no + 1] = buf,
                                          !.bitmap = Bitmap_set(@, rid.slot_no),
                                          !.num_records = @ + 1]
        pgs1   == [f.pages EXCEPT ![target] = pg1]
    IN  IF pg1.num_records # NumRecordsPerPage
        THEN RmResult([hdr |-> f.hdr, pages |-> pgs1], "ok", rid, buf)
        ELSE IF f.hdr.first_free_page_no = target
        THEN RmResult([hdr |-> [f.hdr EXCEPT !.first_free_page_no = pg1.next_free_page_no],
                       pages |-> [pgs1 EXCEPT ![target].next_free_page_no = RM_NO_PAGE]],
                      "ok", rid, buf)
        ELSE
        LET u == UnlinkFrom(f, pgs1, f.hdr.first_free_page_no, target, f.hdr.num_pages)
        IN  IF u.threw
            THEN RmResult([hdr |-> f.hdr, pages |-> u.pages], "PageNotExistError", rid, 0)
            ELSE RmResult([hdr |-> f.hdr,
                           pages |-> [u.pages EXCEPT ![target].next_free_page_no = RM_NO_PAGE]],
                          "ok", rid, buf)

\* RmFileHandle::release_page_handle: the page goes to the head of the free list
release_page_handle(f, page_no) ==
    [hdr |-> [f.hdr EXCEPT !.first_free_page_no = page_no],
     pages |-> [f.pages EXCEPT ![page_no].next_free_page_no = f.hdr.first_free_page_no]]

\* a delete that puts the page back on the free list when it becomes empty,
\* not when it stops being full
delete_record_ReleaseOnEmpty(f, rid) ==
    IF ~PageExists(f, rid.page_no) THEN RmResult(f, "PageNotExistError", rid, 0)
    ELSE IF ~Bitmap_is_set(f.pages[rid.page_no].bitmap, rid.slot_no)
    THEN RmResult(f, "RecordNotFoundError", rid, 0)
    ELSE
    LET f1 == [f EXCEPT !.pages[rid.page_no].bitmap = Bitmap_reset(@, rid.slot_no),
                        !.pages[rid.page_no].num_records = @ - 1]
    IN  RmResult(IF f1.pages[rid.page_no].num_records = 0
                 THEN release_page_handle(f1, rid.page_no) ELSE f1, "ok", rid, 0)

\* a delete that clears the bit and leaves num_records as it was
delete_record_NoCount(f, rid) ==
    IF ~PageExists(f, rid.page_no) THEN RmResult(f, "PageNotExistError", rid, 0)
    ELSE IF ~Bitmap_is_set(f.pages[rid.page_no].bitmap, rid.slot_no)
    THEN RmResult(f, "RecordNotFoundError", rid, 0)
    ELSE
    LET was_full == f.pages[rid.page_no].num_records = NumRecordsPerPage
        f1       == [f EXCEPT !.pages[rid.page_no].bitmap = Bitmap_reset(@, rid.slot_no)]
    IN  RmResult(IF was_full THEN release_page_handle(f1, rid.page_no) ELSE f1, "ok", rid, 0)

\* RmFileHandle::delete_record
delete_record(f, rid) ==
    IF ~PageExists(f, rid.page_no) THEN RmResult(f, "PageNotExistError", rid, 0)
    ELSE IF ~Bitmap_is_set(f.pages[rid.page_no].bitmap, rid.slot_no)
    THEN RmResult(f, "RecordNotFoundError", rid, 0)
    ELSE
    LET was_full == f.pages[rid.page_no].num_records = NumRecordsPerPage
        f1       == [f EXCEPT !.pages[rid.page_no].bitmap = Bitmap_reset(@, rid.slot_no),
                              !.pages[rid.page_no].num_records = @ - 1]
    IN  RmResult(IF was_full THEN release_page_handle(f1, rid.page_no) ELSE f1, "ok", rid, 0)

\* an update that writes the slot without testing its bit
update_record_Unchecked(f, rid, buf) ==
    IF ~PageExists(f, rid.page_no) THEN RmResult(f, "PageNotExistError", rid, 0)
    ELSE RmResult([f EXCEPT !.pages[rid.page_no].slots[rid.slot_no + 1] = buf], "ok", rid, buf)

\* RmFileHandle::update_record
update_record(f, rid, buf) ==
    IF ~PageExists(f, rid.page_no) THEN RmResult(f, "PageNotExistError", rid, 0)
    ELSE IF ~Bitmap_is_set(f.pages[rid.page_no].bitmap, rid.slot_no)
    THEN RmResult(f, "RecordNotFoundError", rid, 0)
    ELSE RmResult([f EXCEPT !.pages[rid.page_no].slots[rid.slot_no + 1] = buf], "ok", rid, buf)

\* the file's state without the bytes: what the free list, the counts and the
\* bitmaps are
Meta(f) ==
    [hdr |-> f.hdr,
     pages |-> [p \in DOMAIN f.pages |->
                   [num_records |-> f.pages[p].num_records,
                    next_free_page_no |-> f.pages[p].next_free_page_no,
                    bitmap |-> f.pages[p].bitmap]]]

NoRmRet == [op |-> "none", rid |-> NoRid, buf |-> 0, err |-> "ok", rec |-> 0]

RmReturned(op, rid, buf, r) == [op |-> op, rid |-> rid, buf |-> buf, err |-> r.err, rec |-> r.rec]

NoRt == [phase |-> 0, rid |-> NoRid, buf |-> 0, snap |-> <<>>]

NoSnap == [valid |-> FALSE, f |-> <<>>, undone |-> 0]

NoScan == [open |-> FALSE, rid_ |-> NoRid, out |-> <<>>]

\* no round trip and no scan is under way, and no transaction has writes to undo
Quiet == rt.phase = 0 /\ ~scan.open /\ \A t \in TxnIds : write_set[t] = <<>>

\* the file becomes r.f
Store(r) == file_hdr_' = r.f.hdr /\ pages' = r.f.pages

\* a caller's insert_record(buf)
InsertRecord(buf) ==
    LET r == insert_record(File, buf)
    IN  /\ Quiet
        /\ Store(r)
        /\ rm_ret' = RmReturned("insert_record", r.rid, buf, r)
        /\ last_write' = IF r.err = "ok" THEN [last_write EXCEPT ![r.rid] = buf] ELSE last_write
        /\ UNCHANGED <<lmvars, scan, rt, tx_snap>>

\* a caller's insert_record(rid, buf)
InsertRecordAt(rid, buf) ==
    LET r == insert_record_at(File, rid, buf)
    IN  /\ Quiet
        /\ Store(r)
        /\ rm_ret' = RmReturned("insert_record_at", rid, buf, r)
        /\ last_write' = IF r.err = "ok" THEN [last_write EXCEPT ![rid] = buf] ELSE last_write
        /\ UNCHANGED <<lmvars, scan, rt, tx_snap>>

\* a caller's delete_record(rid)
DeleteRecord(rid) ==
    LET r == delete_record(File, rid)
    IN  /\ Quiet
        /\ Store(r)
        /\ rm_ret' = RmReturned("delete_record", rid, 0, r)
        /\ last_write' = IF r.err = "ok" THEN [last_write EXCEPT ![rid] = 0] ELSE last_write
        /\ UNCHANGED <<lmvars, scan, rt, tx_snap>>

\* a caller's update_record(rid, buf)
UpdateRecord(rid, buf) ==
    LET r == update_record(File, rid, buf)
    IN  /\ Quiet
        /\ Store(r)
        /\ rm_ret' = RmReturned("update_record", rid, buf, r)
        /\ last_write' = IF r.err = "ok" THEN [last_write EXCEPT ![rid] = buf] ELSE last_write
        /\ UNCHANGED <<lmvars, scan, rt, tx_snap>>

\* a caller's get_record(rid)
GetRecord(rid) ==
    LET r == get_record(File, rid)
    IN  /\ Quiet
        /\ rm_ret' = RmReturned("get_record", rid, 0, r)
        /\ UNCHANGED <<lmvars, file_hdr_, pages, last_write, scan, rt, tx_snap>>

\* ------------------------------------------------------------------- scan
\* rm_scan.cpp:25-35: the first set bit at or after page_no (after start_slot
\* on start_page); err when fetch_page_handle throws
RECURSIVE ScanPages(_, _, _, _)
ScanPages(f, page_no, start_page, start_slot) ==
    IF ~(page_no < f.hdr.num_pages) THEN [rid |-> NoRid, err |-> "ok"]
    ELSE IF ~PageExists(f, page_no) THEN [rid |-> NoRid, err |-> "PageNotExistError"]
    ELSE LET begin_slot == IF page_no = start_page THEN start_slot ELSE -1
             slot_no    == Bitmap_next_bit(TRUE, f.pages[page_no].bitmap,
                                           NumRecordsPerPage, begin_slot)
         IN  IF slot_no < NumRecordsPerPage
             THEN [rid |-> [page_no |-> page_no, slot_no |-> slot_no], err |-> "ok"]
             ELSE ScanPages(f, page_no + 1, start_page, start_slot)

\* a next() that searches the current page from its first slot again
RmScan_next_Restart(f, rid_) ==
    IF f.hdr.num_pages <= RM_FIRST_RECORD_PAGE THEN [rid |-> NoRid, err |-> "ok"]
    ELSE ScanPages(f, rid_.page_no, rid_.page_no, -1)

\* RmScan::next
RmScan_next(f, rid_) ==
    IF f.hdr.num_pages <= RM_FIRST_RECORD_PAGE THEN [rid |-> NoRid, err |-> "ok"]
    ELSE ScanPages(f, rid_.page_no, rid_.page_no, rid_.slot_no)

\* RmScan::is_end
is_end(rid_) == rid_.page_no = RM_NO_PAGE

\* RmScan::RmScan
ScanOpen ==
    /\ Quiet
    /\ scan' = [open |-> TRUE,
                 rid_ |-> RmScan_next(File, [page_no |-> RM_FIRST_RECORD_PAGE, slot_no |-> -1]).rid,
                 out |-> <<>>]
    /\ UNCHANGED <<lmvars, file_hdr_, pages, rm_ret, last_write, rt, tx_snap>>

\* one turn of the caller's loop: take rid(), then next()
ScanNext ==
    /\ scan.open /\ ~is_end(scan.rid_)
    /\ scan' = [open |-> TRUE,
                 rid_ |-> RmScan_next(File, scan.rid_).rid,
                 out |-> Append(scan.out, scan.rid_)]
    /\ UNCHANGED <<lmvars, file_hdr_, pages, rm_ret, last_write, rt, tx_snap>>

\* the caller's loop ended and the scan object is destroyed
ScanClose ==
    /\ scan.open /\ is_end(scan.rid_)
    /\ scan' = NoScan
    /\ UNCHANGED <<lmvars, file_hdr_, pages, rm_ret, last_write, rt, tx_snap>>

\* ------------------------------------------------------------ buffer pool
\* What a record-manager call does to the buffer pool, in the order of the
\* code: pin (fetch_page or new_page returned the page), write, unpin(dirty).
\* gone is the set of pages for which the pool's fetch_page returns nullptr
\* during the call, nonew says that new_page returns nullptr.
Pinned(p) == <<[k |-> "pin", p |-> p, dirty |-> FALSE]>>

Wrote(p) == <<[k |-> "write", p |-> p, dirty |-> FALSE]>>

Unpin(p, is_dirty) == <<[k |-> "unpin", p |-> p, dirty |-> is_dirty]>>

\* RmFileHandle::fetch_page_handle returns a handle: neither throw is taken
Delivered(f, page_no, gone) == PageExists(f, page_no) /\ page_no \notin gone

PinResult(f, err, ev) == [f |-> f, err |-> err, ev |-> ev]

\* RmFileHandle::get_record, with its pins
pin_get_record(f, rid, gone) ==
    IF ~Delivered(f, rid.page_no, gone) THEN PinResult(f, "PageNotExistError", <<>>)
    ELSE PinResult(f, get_record(f, rid).err, Pinned(rid.page_no) \o Unpin(rid.page_no, FALSE))

\* RmFileHandle::update_record, with its pins
pin_update_record(f, rid, buf, gone) ==
    IF ~Delivered(f, rid.page_no, gone) THEN PinResult(f, "PageNotExistError", <<>>)
    ELSE LET r == update_record(f, rid, buf)
         IN  PinResult(r.f, r.err,
                       Pinned(rid.page_no) \o
                       (IF r.err = "ok" THEN Wrote(rid.page_no) \o Unpin(rid.page_no, TRUE)
                                        ELSE Unpin(rid.page_no, FALSE)))

\* RmFileHandle::delete_record, with its pins
pin_delete_record(f, rid, gone) ==
    IF ~Delivered(f, rid.page_no, gone) THEN PinResult(f, "PageNotExistError", <<>>)
    ELSE LET r == delete_record(f, rid)
         IN  PinResult(r.f, r.err,
                       Pinned(rid.page_no) \o
                       (IF r.err = "ok" THEN Wrote(rid.page_no) \o Unpin(rid.page_no, TRUE)
                                        ELSE Unpin(rid.page_no, FALSE)))

\* RmFileHandle::insert_record(char* buf, Context*), with its pins and those
\* of create_page_handle and create_new_page_handle
pin_insert_record(f, buf, gone, nonew) ==
    LET fresh   == f.hdr.first_free_page_no = RM_NO_PAGE
        c       == create_page_handle(f)
        page_no == c.page_no
        made    == IF fresh THEN Pinned(page_no) \o Wrote(page_no) \o Unpin(page_no, TRUE)
                            ELSE <<>>
        r       == insert_record(f, buf)
    IN  IF fresh /\ nonew THEN PinResult(f, "InternalError", <<>>)
        ELSE IF ~Delivered(c.f, page_no, gone) THEN PinResult(c.f, "PageNotExistError", made)
        ELSE PinResult(r.f, r.err,
                       made \o Pinned(page_no) \o
                       (IF r.err = "ok" THEN Wrote(page_no) \o Unpin(page_no, TRUE)
                                        ELSE Unpin(page_no, FALSE)))

\* rm_file_handle.cpp:73-84 with its pins: the walk of UnlinkFrom, where a
\* fetch_page_handle that throws ends the call at once
RECURSIVE PinUnlinkFrom(_, _, _, _, _, _)
PinUnlinkFrom(f, pgs, prev, target, gone, fuel) ==
    IF prev = RM_NO_PAGE \/ fuel = 0 THEN [pages |-> pgs, threw |-> FALSE, ev |-> <<>>]
    ELSE IF ~Delivered(f, prev, gone) THEN [pages |-> pgs, threw |-> TRUE, ev |-> <<>>]
    ELSE IF pgs[prev].next_free_page_no = target
    THEN [pages |-> [pgs EXCEPT ![prev].next_free_page_no = pgs[target].next_free_page_no],
          threw |-> FALSE,
          ev    |-> Pinned(prev) \o Wrote(prev) \o Unpin(prev, TRUE)]
    ELSE LET rest == PinUnlinkFrom(f, pgs, pgs[prev].next_free_page_no, target, gone, fuel - 1)
         IN  [pages |-> rest.pages, threw |-> rest.threw,
              ev    |-> Pinned(prev) \o Unpin(prev, FALSE) \o rest.ev]

\* RmFileHandle::insert_record(const Rid&, char* buf), with its pins
pin_insert_record_at(f, rid, buf, gone) ==
    LET target == rid.page_no
    IN  IF ~Delivered(f, target, gone) THEN PinResult(f, "PageNotExistError", <<>>)
        ELSE IF Bitmap_is_set(f.pages[target].bitmap, rid.slot_no)
        THEN PinResult(f, "RecordNotFoundError", Pinned(target) \o Unpin(target, FALSE))
        ELSE
        LET pg1  == [f.pages[target] EXCEPT !.slots[rid.slot_no + 1] = buf,
                                            !.bitmap = Bitmap_set(@, rid.slot_no),
                                            !.num_records = @ + 1]
            pgs1 == [f.pages EXCEPT ![target] = pg1]
            u    == PinUnlinkFrom(f, pgs1, f.hdr.first_free_page_no, target, gone,
                                  f.hdr.num_pages)
        IN  IF pg1.num_records # NumRecordsPerPage \/ f.hdr.first_free_page_no = target
            THEN PinResult(insert_record_at(f, rid, buf).f, "ok",
                           Pinned(target) \o Wrote(target) \o Unpin(target, TRUE))
            ELSE IF u.threw
            THEN PinResult([hdr |-> f.hdr, pages |-> u.pages], "PageNotExistError",
                           Pinned(target) \o Wrote(target) \o u.ev)
            ELSE PinResult([hdr |-> f.hdr,
                            pages |-> [u.pages EXCEPT ![target].next_free_page_no = RM_NO_PAGE]],
                           "ok",
                           Pinned(target) \o Wrote(target) \o u.ev \o Unpin(target, TRUE))

\* rm_scan.cpp:25-35 with its pins
RECURSIVE PinScanPages(_, _, _, _, _)
PinScanPages(f, page_no, start_page, start_slot, gone) ==
    IF ~(page_no < f.hdr.num_pages) THEN [err |-> "ok", ev |-> <<>>]
    ELSE IF ~Delivered(f, page_no, gone) THEN [err |-> "PageNotExistError", ev |-> <<>>]
    ELSE LET begin_slot == IF page_no = start_page THEN start_slot ELSE -1
             slot_no    == Bitmap_next_bit(TRUE, f.pages[page_no].bitmap,
                                           NumRecordsPerPage, begin_slot)
             here       == Pinned(page_no) \o Unpin(page_no, FALSE)
             rest       == PinScanPages(f, page_no + 1, start_page, start_slot, gone)
         IN  IF slot_no < NumRecordsPerPage THEN [err |-> "ok", ev |-> here]
             ELSE [err |-> rest.err, ev |-> here \o rest.ev]

\* RmScan::next, with its pins
pin_RmScan_next(f, rid_, gone) ==
    IF f.hdr.num_pages <= RM_FIRST_RECORD_PAGE THEN PinResult(f, "ok", <<>>)
    ELSE LET s == PinScanPages(f, rid_.page_no, rid_.page_no, rid_.slot_no, gone)
         IN  PinResult(f, s.err, s.ev)

\* pins less unpins of page p in ev
NetPins(ev, p) ==
    Cardinality({i \in 1..Len(ev) : ev[i].k = "pin" /\ ev[i].p = p})
    - Cardinality({i \in 1..Len(ev) : ev[i].k = "unpin" /\ ev[i].p = p})

NoPinLog == [wrote |-> {}, dirty |-> {}]

\* the pages a call wrote and the pages it unpinned dirty
PinLog(ev) ==
    [wrote |-> {ev[i].p : i \in {j \in 1..Len(ev) : ev[j].k = "write"}},
     dirty |-> {ev[i].p : i \in {j \in 1..Len(ev) : ev[j].k = "unpin" /\ ev[j].dirty}}]

\* a call with the pool: the file becomes r.f, the pool counts r.ev.  No call
\* is followed once a pin has been left behind.
PoolCall(op, rid, buf, r) ==
    /\ Quiet
    /\ \A p \in DOMAIN pin_count : pin_count[p] = 0
    /\ Store(r)
    /\ rm_ret' = [op |-> op, rid |-> rid, buf |-> buf, err |-> r.err, rec |-> 0]
    /\ pin_count' = [p \in DOMAIN pin_count |-> pin_count[p] + NetPins(r.ev, p)]
    /\ pin_log' = PinLog(r.ev)
    /\ UNCHANGED <<lmvars, last_write, scan, rt, tx_snap, cq, race>>

PoolGetRecord(rid, gone) == PoolCall("get_record", rid, 0, pin_get_record(File, rid, gone))

PoolUpdateRecord(rid, gone) ==
    PoolCall("update_record", rid, 1, pin_update_record(File, rid, 1, gone))

PoolDeleteRecord(rid, gone) == PoolCall("delete_record", rid, 0, pin_delete_record(File, rid, gone))

PoolInsertRecord(gone, nonew) ==
    PoolCall("insert_record", NoRid, 1, pin_insert_record(File, 1, gone, nonew))

PoolInsertRecordAt(rid, gone) ==
    PoolCall("insert_record_at", rid, 1, pin_insert_record_at(File, rid, 1, gone))

\* next() of a scan object that stands at rid_
PoolScanNext(rid_, gone) == PoolCall("next", rid_, 0, pin_RmScan_next(File, rid_, gone))

\* ---------------------------------------------------------------- threads
\* insert_record(buf) and delete_record run by two caller threads, one
\* statement group at a time; the record manager takes no mutex, so the steps
\* of the two calls interleave freely.  Each thread makes one call per round.
Threads == {1, 2}

Idle == [pc |-> "idle", op |-> "none", rid |-> NoRid, was_full |-> FALSE, err |-> "ok"]

NoRace == [th |-> [i \in Threads |-> Idle], overlap |-> FALSE]

InCall(i) == race.th[i].pc \notin {"idle", "done"}

\* thread i is at pc and moves to next with the fields in upd changed
Step(i, next, upd) ==
    race' = [race EXCEPT !.th[i] = [f \in DOMAIN Idle |->
                                       IF f = "pc" THEN next
                                       ELSE IF f \in DOMAIN upd THEN upd[f] ELSE @[f]]]

RaceFrame == UNCHANGED <<lmvars, rm_ret, last_write, scan, rt, tx_snap, cq, pin_count, pin_log>>

\* a thread enters a call; overlap records that the other thread is inside one
Enter(i, op, rid, pc) ==
    /\ Quiet
    /\ race.th[i].pc = "idle"
    /\ race' = [th |-> [race.th EXCEPT ![i] = [Idle EXCEPT !.pc = pc, !.op = op, !.rid = rid]],
                overlap |-> race.overlap \/ \E j \in Threads \ {i} : InCall(j)]
    /\ UNCHANGED <<file_hdr_, pages>>
    /\ RaceFrame

StartInsert(i) == Enter(i, "insert_record", NoRid, "head")

StartDelete(i, rid) == Enter(i, "delete_record", rid, "check")

\* rm_file_handle.cpp:31-32: create_page_handle, the page of the free-list head
InsHead(i) ==
    LET c == create_page_handle(File)
    IN  /\ race.th[i].pc = "head"
        /\ file_hdr_' = c.f.hdr /\ pages' = c.f.pages
        /\ Step(i, "find", [rid |-> [page_no |-> c.page_no, slot_no |-> RM_NO_PAGE]])
        /\ RaceFrame

\* rm_file_handle.cpp:34-38: the first clear bit, or InternalError
InsFind(i) ==
    LET page_no == race.th[i].rid.page_no
        slot_no == Bitmap_first_bit(FALSE, pages[page_no].bitmap, NumRecordsPerPage)
    IN  /\ race.th[i].pc = "find"
        /\ IF slot_no >= NumRecordsPerPage
           THEN Step(i, "done", [rid |-> NoRid, err |-> "InternalError"])
           ELSE Step(i, "slot", [rid |-> [page_no |-> page_no, slot_no |-> slot_no]])
        /\ UNCHANGED <<file_hdr_, pages>>
        /\ RaceFrame

\* rm_file_handle.cpp:40: memcpy into the slot
InsSlot(i, buf) ==
    LET rid == race.th[i].rid
    IN  /\ race.th[i].pc = "slot"
        /\ pages' = [pages EXCEPT ![rid.page_no].slots[rid.slot_no + 1] = buf]
        /\ Step(i, "bit", <<>>)
        /\ UNCHANGED file_hdr_
        /\ RaceFrame

\* rm_file_handle.cpp:41: Bitmap::set
InsBit(i) ==
    LET rid == race.th[i].rid
    IN  /\ race.th[i].pc = "bit"
        /\ pages' = [pages EXCEPT ![rid.page_no].bitmap = Bitmap_set(@, rid.slot_no)]
        /\ Step(i, "count", <<>>)
        /\ UNCHANGED file_hdr_
        /\ RaceFrame

\* a count step that leaves num_records as it was
ins_count_Skip(pg) == pg

\* rm_file_handle.cpp:43: num_records++
ins_count(pg) == [pg EXCEPT !.num_records = @ + 1]

InsCount(i) ==
    LET rid == race.th[i].rid
    IN  /\ race.th[i].pc = "count"
        /\ pages' = [pages EXCEPT ![rid.page_no] = ins_count(@)]
        /\ Step(i, "list", <<>>)
        /\ UNCHANGED file_hdr_
        /\ RaceFrame

\* rm_file_handle.cpp:45-50: a full page leaves the head of the free list;
\* the call returns its rid
InsList(i) ==
    LET page_no == race.th[i].rid.page_no
        full    == pages[page_no].num_records = NumRecordsPerPage
    IN  /\ race.th[i].pc = "list"
        /\ file_hdr_' = IF full
                        THEN [file_hdr_ EXCEPT !.first_free_page_no = pages[page_no].next_free_page_no]
                        ELSE file_hdr_
        /\ pages' = IF full THEN [pages EXCEPT ![page_no].next_free_page_no = RM_NO_PAGE]
                            ELSE pages
        /\ Step(i, "done", <<>>)
        /\ RaceFrame

\* rm_file_handle.cpp:98-102: fetch_page_handle and the test of the bit
DelCheck(i) ==
    LET r == get_record(File, race.th[i].rid)
    IN  /\ race.th[i].pc = "check"
        /\ IF r.err = "ok" THEN Step(i, "full", <<>>) ELSE Step(i, "done", [err |-> r.err])
        /\ UNCHANGED <<file_hdr_, pages>>
        /\ RaceFrame

\* rm_file_handle.cpp:103: was_full
DelFull(i) ==
    /\ race.th[i].pc = "full"
    /\ Step(i, "reset",
            [was_full |-> pages[race.th[i].rid.page_no].num_records = NumRecordsPerPage])
    /\ UNCHANGED <<file_hdr_, pages>>
    /\ RaceFrame

\* rm_file_handle.cpp:104: Bitmap::reset
DelReset(i) ==
    LET rid == race.th[i].rid
    IN  /\ race.th[i].pc = "reset"
        /\ pages' = [pages EXCEPT ![rid.page_no].bitmap = Bitmap_reset(@, rid.slot_no)]
        /\ Step(i, "dec", <<>>)
        /\ UNCHANGED file_hdr_
        /\ RaceFrame

\* rm_file_handle.cpp:105: num_records--
DelDec(i) ==
    LET rid == race.th[i].rid
    IN  /\ race.th[i].pc = "dec"
        /\ pages' = [pages EXCEPT ![rid.page_no].num_records = @ - 1]
        /\ Step(i, "release", <<>>)
        /\ UNCHANGED file_hdr_
        /\ RaceFrame

\* rm_file_handle.cpp:107-110: release_page_handle when the page was full;
\* the call returns
DelRelease(i) ==
    LET f == IF race.th[i].was_full THEN release_page_handle(File, race.th[i].rid.page_no)
                                    ELSE File
    IN  /\ race.th[i].pc = "release"
        /\ file_hdr_' = f.hdr /\ pages' = f.pages
        /\ Step(i, "done", <<>>)
        /\ RaceFrame

\* every call of the round has returned: the threads are free to call again.
\* The file is followed up to the first round whose calls overlapped.
NewRound ==
    /\ \A i \in Threads : ~InCall(i)
    /\ \E i \in Threads : race.th[i].pc = "done"
    /\ ~race.overlap
    /\ race' = NoRace
    /\ UNCHANGED <<file_hdr_, pages>>
    /\ RaceFrame

\* ------------------------------------------------------------- round trip
\* rid = insert_record(buf); delete_record(rid); rid' = insert_record(buf),
\* with nothing in between
RtInsert(buf) ==
    LET r == insert_record(File, buf)
    IN  /\ Quiet
        /\ r.err = "ok"
        /\ Store(r)
        /\ rm_ret' = RmReturned("insert_record", r.rid, buf, r)
        /\ last_write' = [last_write EXCEPT ![r.rid] = buf]
        /\ rt' = [phase |-> 1, rid |-> r.rid, buf |-> buf, snap |-> Meta(r.f)]
        /\ UNCHANGED <<lmvars, scan, tx_snap>>

RtDelete ==
    LET r == delete_record(File, rt.rid)
    IN  /\ rt.phase = 1
        /\ Store(r)
        /\ rm_ret' = RmReturned("delete_record", rt.rid, 0, r)
        /\ last_write' = IF r.err = "ok" THEN [last_write EXCEPT ![rt.rid] = 0] ELSE last_write
        /\ rt' = [rt EXCEPT !.phase = 2]
        /\ UNCHANGED <<lmvars, scan, tx_snap>>

RtReinsert ==
    LET r == insert_record(File, rt.buf)
    IN  /\ rt.phase = 2
        /\ Store(r)
        /\ rm_ret' = RmReturned("insert_record", r.rid, rt.buf, r)
        /\ last_write' = IF r.err = "ok" THEN [last_write EXCEPT ![r.rid] = rt.buf] ELSE last_write
        /\ rt' = [rt EXCEPT !.phase = 3, !.rid = r.rid]
        /\ UNCHANGED <<lmvars, scan, tx_snap>>

RtEnd ==
    /\ rt.phase = 3
    /\ rt' = NoRt
    /\ UNCHANGED <<lmvars, file_hdr_, pages, rm_ret, last_write, scan, tx_snap>>

\* ---------------------------------------------------- transaction manager
\* the tables with a file handle in sm_manager_->fhs_
fhs == {"tab"}

WTypes == {"INSERT_TUPLE", "DELETE_TUPLE", "UPDATE_TUPLE"}

WriteRecord(tab, rid, wtype, rec) == [tab |-> tab, rid |-> rid, wtype |-> wtype, rec |-> rec]

\* a caller's new Transaction(MaxTxn): state DEFAULT, empty sets
Construct ==
    /\ MaxTxn \notin objects
    /\ objects' = objects \cup {MaxTxn}
    /\ ret' = Returned("construct", MaxTxn, "ok")
    /\ UNCHANGED <<lock_table, txn_state, lock_set, write_set, txn_map, next_txn_id_,
                   released, rmvars>>

\* TransactionManager::begin(nullptr, ...)
BeginNew ==
    LET t == next_txn_id_
    IN  /\ next_txn_id_ < MaxTxn
        /\ objects' = objects \cup {t}
        /\ next_txn_id_' = next_txn_id_ + 1
        /\ txn_state' = [txn_state EXCEPT ![t] = "GROWING"]
        /\ txn_map' = txn_map \cup {t}
        /\ released' = [released EXCEPT ![t] = FALSE]
        /\ ret' = Returned("begin", t, "ok")
        /\ UNCHANGED <<lock_table, lock_set, write_set, rmvars>>

\* TransactionManager::begin(txn, ...) with an existing transaction
BeginAgain(t) ==
    /\ t \in objects
    /\ txn_state' = [txn_state EXCEPT ![t] = "GROWING"]
    /\ txn_map' = txn_map \cup {t}
    /\ released' = [released EXCEPT ![t] = FALSE]
    /\ ret' = Returned("begin", t, "ok")
    /\ UNCHANGED <<lock_table, objects, lock_set, write_set, next_txn_id_, rmvars>>

\* every order in which the range-for may visit the elements of a set
RECURSIVE Orders(_)
Orders(S) ==
    IF S = {} THEN {<<>>}
    ELSE UNION {{<<x>> \o o : o \in Orders(S \ {x})} : x \in S}

\* transaction_manager.cpp:45-47 and 96-98:
\*     for (const auto &lock_data_id : *txn->get_lock_set())
\*         lock_manager_->unlock(txn, lock_data_id);
\* unlock erases lock_data_id from that very set (lock_manager.cpp:87), so
\* the loop's iterator is invalid when it is incremented.  What the
\* increment reads is the erased node: the loop either goes on to the next
\* element or takes the link for the end and stops (or the process faults,
\* and the call never returns).  The lock tables the loop can leave, visiting
\* in order seq: one per place where it can stop.
RECURSIVE ReleaseLoop(_, _, _)
ReleaseLoop(tbl, t, seq) ==
    IF seq = <<>> THEN {tbl}
    ELSE IF unlock_found(tbl, t, Head(seq))
    THEN LET tbl1 == unlock_table(tbl, t, Head(seq))
         IN  {tbl1} \cup ReleaseLoop(tbl1, t, Tail(seq))
    ELSE ReleaseLoop(tbl, t, Tail(seq))

ReleaseAll(tbl, t, ids) == UNION {ReleaseLoop(tbl, t, seq) : seq \in Orders(ids)}

\* the loop made an unlock call that returned true
ReleasedSome(tbl, t, ids) == \E id \in ids : unlock_found(tbl, t, id)

\* what commit and abort report: whether an unlock call of the loop returned
\* true (and so passed lock_manager.cpp:88-90)
EndVal(tbl, t) == IF ReleasedSome(tbl, t, lock_set[t]) THEN "released" ELSE "ok"

\* TransactionManager::commit
Commit(t) ==
    /\ t \in objects
    /\ write_set' = [write_set EXCEPT ![t] = <<>>]
    /\ lock_table' \in ReleaseAll(lock_table, t, lock_set[t])
    /\ lock_set' = [lock_set EXCEPT ![t] = {}]
    /\ txn_state' = [txn_state EXCEPT ![t] = "COMMITTED"]
    /\ txn_map' = txn_map \ {t}
    /\ released' = [released EXCEPT ![t] = @ \/ ReleasedSome(lock_table, t, lock_set[t])]
    /\ ret' = Returned("commit", t, EndVal(lock_table, t))
    /\ tx_snap' = NoSnap
    /\ UNCHANGED <<objects, next_txn_id_, file_hdr_, pages, rm_ret, last_write, scan, rt>>

\* transaction_manager.cpp:83-89: the inverse operation of one write record
\* an undo that puts a deleted record back with insert_record(buf), wherever
\* the free list places it
UndoOne_AutoPlace(f, w) ==
    IF w.wtype = "INSERT_TUPLE" THEN delete_record(f, w.rid)
    ELSE IF w.wtype = "DELETE_TUPLE" THEN insert_record(f, w.rec)
    ELSE IF w.wtype = "UPDATE_TUPLE" THEN update_record(f, w.rid, w.rec)
    ELSE RmResult(f, "ok", w.rid, 0)

UndoOne(f, w) ==
    IF w.wtype = "INSERT_TUPLE" THEN delete_record(f, w.rid)
    ELSE IF w.wtype = "DELETE_TUPLE" THEN insert_record_at(f, w.rid, w.rec)
    ELSE IF w.wtype = "UPDATE_TUPLE" THEN update_record(f, w.rid, w.rec)
    ELSE RmResult(f, "ok", w.rid, 0)

\* transaction_manager.cpp:72-93: the file and the write-set the undo loop
\* leaves, and the exception that ended it if one did
RECURSIVE Undo(_, _)
Undo(f, ws) ==
    IF ws = <<>> THEN [f |-> f, ws |-> ws, err |-> "ok"]
    ELSE LET w    == ws[Len(ws)]
             rest == SubSeq(ws, 1, Len(ws) - 1)
         IN  IF w.tab \notin fhs THEN Undo(f, rest)
             ELSE LET r == UndoOne(f, w)
                  IN  IF r.err # "ok" THEN [f |-> r.f, ws |-> rest, err |-> r.err]
                      ELSE Undo(r.f, rest)

\* last_write after the undo loop: what each undone record's inverse wrote
RECURSIVE UndoWrites(_, _, _)
UndoWrites(lw, ws, stop) ==
    IF Len(ws) = stop THEN lw
    ELSE LET w == ws[Len(ws)]
         IN  UndoWrites(IF w.tab \notin fhs THEN lw
                        ELSE [lw EXCEPT ![w.rid] = IF w.wtype = "INSERT_TUPLE" THEN 0 ELSE w.rec],
                        SubSeq(ws, 1, Len(ws) - 1), stop)

\* TransactionManager::abort
Abort(t) ==
    LET u == Undo(File, write_set[t])
    IN  /\ t \in objects
        /\ rt.phase = 0 /\ ~scan.open
        /\ file_hdr_' = u.f.hdr /\ pages' = u.f.pages
        /\ write_set' = [write_set EXCEPT ![t] = u.ws]
        /\ IF u.err = "ok"
           THEN /\ lock_table' \in ReleaseAll(lock_table, t, lock_set[t])
                /\ lock_set' = [lock_set EXCEPT ![t] = {}]
                /\ txn_state' = [txn_state EXCEPT ![t] = "ABORTED"]
                /\ txn_map' = txn_map \ {t}
                /\ released' = [released EXCEPT ![t] =
                                   @ \/ ReleasedSome(lock_table, t, lock_set[t])]
                /\ ret' = Returned("abort", t, EndVal(lock_table, t))
                /\ last_write' = UndoWrites(last_write, write_set[t], 0)
                /\ tx_snap' = IF tx_snap.valid
                              THEN [tx_snap EXCEPT !.undone = Len(write_set[t])]
                              ELSE tx_snap
           ELSE /\ ret' = Returned("abort", t, u.err)
                /\ last_write' = UndoWrites(last_write, write_set[t], Len(u.ws) + 1)
                /\ tx_snap' = NoSnap
                /\ UNCHANGED <<lock_table, lock_set, txn_state, txn_map, released>>
        /\ UNCHANGED <<objects, next_txn_id_, rm_ret, scan, rt>>

\* --------------------------------------------------------------- executor
\* The caller of the record manager inside a transaction (the executor): it
\* performs the operation and appends the write record, with the pre-image
\* for a delete and an update.  One transaction writes at a time.
MayWrite(t) ==
    /\ t \in txn_map
    /\ rt.phase = 0 /\ ~scan.open
    /\ \A u \in TxnIds \ {t} : write_set[u] = <<>>
    /\ Len(write_set[t]) < MaxWrites

Snapshot(t) ==
    IF write_set[t] = <<>> THEN [valid |-> TRUE, f |-> File, undone |-> 0] ELSE tx_snap

ExecInsert(t, buf) ==
    LET r == insert_record(File, buf)
    IN  /\ MayWrite(t)
        /\ r.err = "ok"
        /\ Store(r)
        /\ write_set' = [write_set EXCEPT ![t] =
                             Append(@, WriteRecord("tab", r.rid, "INSERT_TUPLE", buf))]
        /\ last_write' = [last_write EXCEPT ![r.rid] = buf]
        /\ tx_snap' = Snapshot(t)
        /\ UNCHANGED <<lock_table, objects, txn_state, lock_set, txn_map, next_txn_id_,
                       ret, released, rm_ret, scan, rt>>

ExecDelete(t, rid) ==
    LET old == get_record(File, rid)
        r   == delete_record(File, rid)
    IN  /\ MayWrite(t)
        /\ old.err = "ok" /\ r.err = "ok"
        /\ Store(r)
        /\ write_set' = [write_set EXCEPT ![t] =
                             Append(@, WriteRecord("tab", rid, "DELETE_TUPLE", old.rec))]
        /\ last_write' = [last_write EXCEPT ![rid] = 0]
        /\ tx_snap' = Snapshot(t)
        /\ UNCHANGED <<lock_table, objects, txn_state, lock_set, txn_map, next_txn_id_,
                       ret, released, rm_ret, scan, rt>>

ExecUpdate(t, rid, buf) ==
    LET old == get_record(File, rid)
        r   == update_record(File, rid, buf)
    IN  /\ MayWrite(t)
        /\ old.err = "ok" /\ r.err = "ok"
        /\ Store(r)
        /\ write_set' = [write_set EXCEPT ![t] =
                             Append(@, WriteRecord("tab", rid, "UPDATE_TUPLE", old.rec))]
        /\ last_write' = [last_write EXCEPT ![rid] = buf]
        /\ tx_snap' = Snapshot(t)
        /\ UNCHANGED <<lock_table, objects, txn_state, lock_set, txn_map, next_txn_id_,
                       ret, released, rm_ret, scan, rt>>

\* a write the transaction made to a table whose file handle has left the
\* catalog since (the table was dropped): only its write record remains
ExecDropped(t, rid, wtype) ==
    /\ MayWrite(t)
    /\ write_set' = [write_set EXCEPT ![t] = Append(@, WriteRecord("dropped", rid, wtype, 1))]
    /\ tx_snap' = Snapshot(t)
    /\ UNCHANGED <<lock_table, objects, txn_state, lock_set, txn_map, next_txn_id_,
                   ret, released, file_hdr_, pages, rm_ret, last_write, scan, rt>>

\* ------------------------------------------------------------------ specs
Init ==
    /\ lock_table = <<>>
    /\ objects = {}
    /\ txn_state = [t \in TxnIds |-> "DEFAULT"]
    /\ lock_set = [t \in TxnIds |-> {}]
    /\ write_set = [t \in TxnIds |-> <<>>]
    /\ txn_map = {}
    /\ next_txn_id_ = 0
    /\ ret = NoRet
    /\ released = [t \in TxnIds |-> FALSE]
    /\ file_hdr_ = [num_pages |-> 1, first_free_page_no |-> RM_NO_PAGE]
    /\ pages = <<>>
    /\ rm_ret = NoRmRet
    /\ last_write = [r \in AllRids |-> 0]
    /\ scan = NoScan
    /\ rt = NoRt
    /\ tx_snap = NoSnap
    /\ cq = {}
    /\ pin_count = [p \in 1..MaxListPages |-> 0]
    /\ pin_log = NoPinLog
    /\ race = NoRace

\* an insert_record(buf) fits the file's bound of cap pages
CanGrow(cap) == file_hdr_.first_free_page_no # RM_NO_PAGE \/ file_hdr_.num_pages < cap

\* the record file used by one caller at a time
NextRM ==
    \/ \E buf \in Bufs : CanGrow(MaxPages) /\ InsertRecord(buf) /\ UNCHANGED auxvars
    \/ \E rid \in Rids, buf \in Bufs : InsertRecordAt(rid, buf) /\ UNCHANGED auxvars
    \/ \E rid \in Rids : DeleteRecord(rid) /\ UNCHANGED auxvars
    \/ \E rid \in Rids, buf \in Bufs : UpdateRecord(rid, buf) /\ UNCHANGED auxvars
    \/ \E rid \in Rids : GetRecord(rid) /\ UNCHANGED auxvars

SpecRM == Init /\ [][NextRM]_vars

\* the record file's free list: longer files, one record content
ListRids == [page_no : 0..MaxListPages, slot_no : Slots]

NextFree ==
    \/ CanGrow(MaxListPages) /\ InsertRecord(1) /\ UNCHANGED auxvars
    \/ \E rid \in ListRids : InsertRecordAt(rid, 1) /\ UNCHANGED auxvars
    \/ \E rid \in ListRids : DeleteRecord(rid) /\ UNCHANGED auxvars
    \/ \E rid \in ListRids : UpdateRecord(rid, 1) /\ UNCHANGED auxvars
    \/ CanGrow(MaxListPages) /\ RtInsert(1) /\ UNCHANGED auxvars
    \/ RtDelete /\ UNCHANGED auxvars
    \/ RtReinsert /\ UNCHANGED auxvars
    \/ RtEnd /\ UNCHANGED auxvars

SpecFree == Init /\ [][NextFree]_vars

\* the record file and scans of it
NextScan ==
    \/ CanGrow(MaxListPages) /\ InsertRecord(1) /\ UNCHANGED auxvars
    \/ \E rid \in ListRids : DeleteRecord(rid) /\ UNCHANGED auxvars
    \/ ScanOpen /\ UNCHANGED auxvars
    \/ ScanNext /\ UNCHANGED auxvars
    \/ ScanClose /\ UNCHANGED auxvars

SpecScan == Init /\ [][NextScan]_vars

\* the lock manager on one lock queue, every mode, with the transaction
\* manager's calls of it
NextLM ==
    \/ Construct /\ UNCHANGED auxvars
    \/ BeginNew /\ UNCHANGED auxvars
    \/ \E t \in TxnIds : BeginAgain(t) /\ UNCHANGED auxvars
    \/ \E t \in TxnIds, m \in LockMode : Lock(t, TableLockId, m) /\ UNCHANGED auxvars
    \/ \E t \in TxnIds : Unlock(t, TableLockId) /\ UNCHANGED auxvars
    \/ \E t \in TxnIds : Commit(t) /\ UNCHANGED auxvars
    \/ \E t \in TxnIds : Abort(t) /\ UNCHANGED auxvars

SpecLM == Init /\ [][NextLM]_vars

\* the transaction manager with transactions that hold several locks, in the
\* two modes of lock_shared_on_* and lock_exclusive_on_*
SharedExclusive == {"SHARED", "EXLUCSIVE"}

NextTM ==
    \/ Construct /\ UNCHANGED auxvars
    \/ BeginNew /\ UNCHANGED auxvars
    \/ \E t \in TxnIds : BeginAgain(t) /\ UNCHANGED auxvars
    \/ \E t \in TxnIds, id \in LockDataIds, m \in SharedExclusive : Lock(t, id, m) /\ UNCHANGED auxvars
    \/ \E t \in TxnIds, id \in LockDataIds : Unlock(t, id) /\ UNCHANGED auxvars
    \/ \E t \in TxnIds : Commit(t) /\ UNCHANGED auxvars
    \/ \E t \in TxnIds : Abort(t) /\ UNCHANGED auxvars

SpecTM == Init /\ [][NextTM]_vars

\* transactions that write the record file and end
NextTx ==
    \/ BeginNew /\ UNCHANGED auxvars
    \/ \E t \in TxnIds : BeginAgain(t) /\ UNCHANGED auxvars
    \/ \E t \in TxnIds, buf \in Bufs : CanGrow(MaxPages) /\ ExecInsert(t, buf) /\ UNCHANGED auxvars
    \/ \E t \in TxnIds, rid \in Rids : ExecDelete(t, rid) /\ UNCHANGED auxvars
    \/ \E t \in TxnIds, rid \in Rids, buf \in Bufs : ExecUpdate(t, rid, buf) /\ UNCHANGED auxvars
    \/ \E t \in TxnIds : Commit(t) /\ UNCHANGED auxvars
    \/ \E t \in TxnIds : Abort(t) /\ UNCHANGED auxvars

SpecTx == Init /\ [][NextTx]_vars

\* lock and unlock on several ids in all five modes
NextUp ==
    \/ Construct /\ UNCHANGED auxvars
    \/ BeginNew /\ UNCHANGED auxvars
    \/ \E t \in TxnIds, id \in LockDataIds, m \in LockMode : Lock(t, id, m) /\ UNCHANGED auxvars
    \/ \E t \in TxnIds, id \in LockDataIds : Unlock(t, id) /\ UNCHANGED auxvars

SpecUp == Init /\ [][NextUp]_vars

\* is_compatible alone, on every pair of arguments
\* the pool fails to deliver no page during a call, or one
Gone == {{}} \cup {{p} : p \in RM_FIRST_RECORD_PAGE..(MaxListPages - 1)}

\* the positions a scan object can stand at: before the first slot, or on a slot
ScanRids == [page_no : RM_FIRST_RECORD_PAGE..(MaxListPages - 1), slot_no : Slots \cup {-1}]

NextPool ==
    \/ \E rid \in ListRids, gone \in Gone : PoolGetRecord(rid, gone)
    \/ \E rid \in ListRids, gone \in Gone : PoolUpdateRecord(rid, gone)
    \/ \E rid \in ListRids, gone \in Gone : PoolDeleteRecord(rid, gone)
    \/ \E gone \in Gone, nonew \in BOOLEAN : CanGrow(MaxListPages) /\ PoolInsertRecord(gone, nonew)
    \/ \E rid \in ListRids, gone \in Gone : PoolInsertRecordAt(rid, gone)
    \/ \E rid_ \in ScanRids, gone \in Gone : PoolScanNext(rid_, gone)

SpecPool == Init /\ [][NextPool]_vars

NextRace ==
    \/ \E i \in Threads : CanGrow(MaxPages) /\ StartInsert(i)
    \/ \E i \in Threads, rid \in Rids : StartDelete(i, rid)
    \/ \E i \in Threads : InsHead(i)
    \/ \E i \in Threads : InsFind(i)
    \/ \E i \in Threads : InsSlot(i, 1)
    \/ \E i \in Threads : InsBit(i)
    \/ \E i \in Threads : InsCount(i)
    \/ \E i \in Threads : InsList(i)
    \/ \E i \in Threads : DelCheck(i)
    \/ \E i \in Threads : DelFull(i)
    \/ \E i \in Threads : DelReset(i)
    \/ \E i \in Threads : DelDec(i)
    \/ \E i \in Threads : DelRelease(i)
    \/ NewRound

SpecRace == Init /\ [][NextRace]_vars

\* a transaction that locks, writes (also to a table dropped since) and aborts
NextAbort ==
    \/ BeginNew /\ UNCHANGED auxvars
    \/ \E t \in TxnIds : BeginAgain(t) /\ UNCHANGED auxvars
    \/ \E t \in TxnIds, id \in LockDataIds : Lock(t, id, "EXLUCSIVE") /\ UNCHANGED auxvars
    \/ \E t \in TxnIds : CanGrow(MaxPages) /\ ExecInsert(t, 1) /\ UNCHANGED auxvars
    \/ \E t \in TxnIds, rid \in Rids : ExecDelete(t, rid) /\ UNCHANGED auxvars
    \/ \E t \in TxnIds, rid \in Rids : ExecUpdate(t, rid, 2) /\ UNCHANGED auxvars
    \/ \E t \in TxnIds, wtype \in WTypes :
          ExecDropped(t, [page_no |-> RM_FIRST_RECORD_PAGE, slot_no |-> 0], wtype)
          /\ UNCHANGED auxvars
    \/ \E t \in TxnIds : Abort(t) /\ UNCHANGED auxvars

SpecAbort == Init /\ [][NextAbort]_vars

NextCompat == \E lhs \in ModeArgs, rhs \in ModeArgs : IsCompatible(lhs, rhs)

SpecCompat == Init /\ [][NextCompat]_vars

\* ----------------------------------------------------------------- claims
\* the compatibility matrix as the specification gives it: the compatible
\* pairs of modes, in either order
MatrixPairs ==
    {<<"INTENTION_SHARED", "INTENTION_SHARED">>, <<"INTENTION_SHARED", "INTENTION_EXCLUSIVE">>,
     <<"INTENTION_SHARED", "SHARED">>, <<"INTENTION_SHARED", "S_IX">>,
     <<"INTENTION_EXCLUSIVE", "INTENTION_EXCLUSIVE">>, <<"SHARED", "SHARED">>}

MatrixCompatible(a, b) == <<a, b>> \in MatrixPairs \/ <<b, a>> \in MatrixPairs

\* C1: in every reachable lock table, two granted requests of different
\* transactions in the same queue have modes the matrix calls compatible.
C1_GrantedCompatible ==
    \A id \in DOMAIN lock_table :
        LET rq == lock_table[id].request_queue_
        IN  \A i, j \in 1..Len(rq) :
                (rq[i].txn_id_ # rq[j].txn_id_ /\ rq[i].granted_ /\ rq[j].granted_)
                    => MatrixCompatible(rq[i].lock_mode_, rq[j].lock_mode_)

C1_Witness ==
    \E id \in DOMAIN lock_table :
        LET rq == lock_table[id].request_queue_
        IN  \E i, j \in 1..Len(rq) :
                /\ rq[i].txn_id_ # rq[j].txn_id_ /\ rq[i].granted_ /\ rq[j].granted_
                /\ rq[i].lock_mode_ = "INTENTION_SHARED" /\ rq[j].lock_mode_ = "S_IX"

\* C2: once an unlock call of a transaction has released a lock, every later
\* lock call of that transaction raises LOCK_ON_SHRINKING.
C2_LockAfterUnlockRaises ==
    (ret.op = "lock" /\ released[ret.txn]) => ret.val = "LOCK_ON_SHIRINKING"

\* the pages of the free list from page_no on, as far as fuel goes
RECURSIVE FreeListFrom(_, _, _)
FreeListFrom(f, page_no, fuel) ==
    IF page_no = RM_NO_PAGE \/ fuel = 0 \/ ~PageExists(f, page_no) THEN <<>>
    ELSE <<page_no>> \o FreeListFrom(f, f.pages[page_no].next_free_page_no, fuel - 1)

FreeList(f) == FreeListFrom(f, f.hdr.first_free_page_no, f.hdr.num_pages)

DataPages(f) == RM_FIRST_RECORD_PAGE..(f.hdr.num_pages - 1)

\* the walk from first_free_page_no ends at NO_PAGE without meeting a page
\* twice or a page that does not exist
FreeListEnds(f) ==
    LET l == FreeList(f)
    IN  /\ \A i, j \in 1..Len(l) : i # j => l[i] # l[j]
        /\ IF l = <<>> THEN f.hdr.first_free_page_no = RM_NO_PAGE
           ELSE f.pages[l[Len(l)]].next_free_page_no = RM_NO_PAGE

FreeListHolds(f) ==
    LET l == FreeList(f)
    IN  /\ FreeListEnds(f)
        /\ \A p \in DataPages(f) :
               IF f.pages[p].num_records < NumRecordsPerPage
               THEN \E i \in 1..Len(l) : l[i] = p
               ELSE /\ \A i \in 1..Len(l) : l[i] # p
                    /\ f.pages[p].next_free_page_no = RM_NO_PAGE

\* C3: after any sequence of insert_record(buf), insert_record(rid, buf) and
\* delete_record calls, every page with a free slot is on the free list
\* exactly once, the list is acyclic, and every full page is off the list
\* with next_free_page_no = NO_PAGE.
C3_FreeList == FreeListHolds(File)

\* an explicit-rid insert has just filled a page while two other pages stay
\* on the free list
C3_Witness ==
    /\ rm_ret.op = "insert_record_at" /\ rm_ret.err = "ok"
    /\ pages[rm_ret.rid.page_no].num_records = NumRecordsPerPage
    /\ Len(FreeList(File)) = 2

PopCount(bm) == Cardinality({i \in 1..Len(bm) : bm[i]})

\* C4: after any sequence of record-manager calls, failing ones included,
\* every page's bitmap has num_records bits set and num_records is between 0
\* and num_records_per_page.
C4_PopCount ==
    \A p \in DataPages(File) :
        /\ PopCount(pages[p].bitmap) = pages[p].num_records
        /\ 0 <= pages[p].num_records /\ pages[p].num_records <= NumRecordsPerPage

\* a call has just failed on a file that holds a full page and a page with a hole
C4_Witness ==
    /\ rm_ret.err = "RecordNotFoundError"
    /\ \E p \in DataPages(File) : pages[p].num_records = NumRecordsPerPage
    /\ \E p \in DataPages(File) : pages[p].bitmap = <<FALSE, TRUE>>

\* C5: get_record(rid) returns the bytes of the most recent insert or update
\* at rid exactly when no delete of rid came after it (and throws otherwise);
\* calls on other rids leave that unchanged.
C5_ReadsLastWrite ==
    /\ \A rid \in Rids :
           LET r == get_record(File, rid)
           IN  IF last_write[rid] # 0
               THEN r.err = "ok" /\ r.rec = last_write[rid]
               ELSE r.err # "ok"
    /\ rm_ret.op = "get_record" =>
           IF last_write[rm_ret.rid] # 0
           THEN rm_ret.err = "ok" /\ rm_ret.rec = last_write[rm_ret.rid]
           ELSE rm_ret.err # "ok"

\* a get_record has returned bytes while a deleted slot still holds other bytes
C5_Witness ==
    /\ rm_ret.op = "get_record" /\ rm_ret.err = "ok" /\ rm_ret.rec = 2
    /\ \E rid \in Rids :
           /\ PageExists(File, rid.page_no)
           /\ last_write[rid] = 0 /\ pages[rid.page_no].slots[rid.slot_no + 1] = 1

\* C6 as stated: after abort has undone a write-set, the file (header, every
\* page's next_free_page_no, num_records, bitmap and slot bytes) is exactly
\* the file before the transaction's first write.
C6_AbortRestoresExactly ==
    (tx_snap.valid /\ tx_snap.undone > 0) => File = tx_snap.f

\* what abort restores of the file old in the file new
Restored(old, new) ==
    /\ new.hdr.num_pages >= old.hdr.num_pages
    /\ \A p \in DataPages(old) :
           /\ new.pages[p].bitmap = old.pages[p].bitmap
           /\ new.pages[p].num_records = old.pages[p].num_records
           /\ \A i \in 1..NumRecordsPerPage :
                  old.pages[p].bitmap[i] => new.pages[p].slots[i] = old.pages[p].slots[i]
    /\ \A p \in DataPages(new) \ DataPages(old) : new.pages[p].num_records = 0
    /\ new.hdr.num_pages = old.hdr.num_pages => Meta(new) = Meta(old)
    /\ FreeListEnds(new)
    /\ LET l == FreeList(new)
           n == Len(FreeList(old))
       IN  /\ n <= Len(l)
           /\ SubSeq(l, 1, n) = FreeList(old)
           /\ {l[i] : i \in (n + 1)..Len(l)} = DataPages(new) \ DataPages(old)
    /\ \A rid \in Rids :
           LET a == get_record(old, rid)
               b == get_record(new, rid)
           IN  /\ (a.err = "ok") = (b.err = "ok")
               /\ a.err = "ok" => b.rec = a.rec

\* C6 as amended: after abort has undone a write-set, every page the file had
\* before the transaction has its bitmap, num_records and the bytes of its
\* live slots back, and every get_record returns the bytes it returned before
\* or fails where it failed before; pages the transaction allocated stay in
\* the file, empty, behind the pages of the old free list on the free list,
\* whose order is the old one; when it allocated none, the header and every
\* next_free_page_no are restored too.  Bytes of slots that are not live are
\* not restored.
C6_AbortRestores ==
    (tx_snap.valid /\ tx_snap.undone > 0) => Restored(tx_snap.f, File)

\* an abort has undone a full write-set on a file that had a data page
\* before, and the file is not the file before the transaction
C6_Witness ==
    /\ ret.op = "abort" /\ tx_snap.valid /\ tx_snap.undone = MaxWrites
    /\ tx_snap.f.hdr.num_pages > RM_FIRST_RECORD_PAGE
    /\ File # tx_snap.f

\* C7: when commit or abort has returned, no queue holds a request of the
\* transaction, its lock_set and write_set are empty, its state is COMMITTED
\* (ABORTED) and it is not in txn_map.
C7_EndReleasesAll ==
    (ret.op \in {"commit", "abort"} /\ ret.val \in {"ok", "released"}) =>
        /\ \A id \in DOMAIN lock_table :
               FirstOf(lock_table[id].request_queue_, ret.txn) = 0
        /\ lock_set[ret.txn] = {} /\ write_set[ret.txn] = <<>>
        /\ txn_state[ret.txn] = (IF ret.op = "commit" THEN "COMMITTED" ELSE "ABORTED")
        /\ ret.txn \notin txn_map

\* the changes of txn t's state_ in a step, in order: commit and abort pass
\* through SHRINKING when their unlock loop releases a lock of a GROWING
\* transaction
StateChanges(t) ==
    IF /\ ret'.op \in {"commit", "abort"} /\ ret'.txn = t /\ ret'.val = "released"
       /\ txn_state[t] = "GROWING"
    THEN {<<"GROWING", "SHRINKING">>, <<"SHRINKING", txn_state'[t]>>}
    ELSE IF txn_state'[t] # txn_state[t] THEN {<<txn_state[t], txn_state'[t]>>}
    ELSE {}

ClaimEdges ==
    {<<"DEFAULT", "GROWING">>, <<"GROWING", "SHRINKING">>, <<"SHRINKING", "COMMITTED">>,
     <<"SHRINKING", "ABORTED">>, <<"DEFAULT", "ABORTED">>, <<"GROWING", "ABORTED">>}

\* C8 as stated: every change of a transaction's state follows an edge of
\* DEFAULT -> GROWING -> SHRINKING -> {COMMITTED, ABORTED}, DEFAULT -> ABORTED
\* or GROWING -> ABORTED.
C8_OnlyClaimEdges ==
    [][\A t \in TxnIds : StateChanges(t) \subseteq ClaimEdges]_vars

\* C8 as amended: lock only makes DEFAULT -> GROWING and unlock only
\* GROWING -> SHRINKING; begin sets GROWING, commit COMMITTED and abort
\* ABORTED from whatever state the transaction is in; nothing sets DEFAULT
\* and SHRINKING is entered only from GROWING.
C8_Edges ==
    [][\A t \in TxnIds : \A e \in StateChanges(t) :
          /\ e[2] # "DEFAULT"
          /\ e[2] = "GROWING" =>
                 (ret'.op = "begin" \/ (ret'.op = "lock" /\ e[1] = "DEFAULT"))
          /\ e[2] = "SHRINKING" =>
                 (e[1] = "GROWING" /\ ret'.op \in {"unlock", "commit", "abort"})
          /\ e[2] = "COMMITTED" => ret'.op = "commit"
          /\ e[2] = "ABORTED" => ret'.op = "abort"]_vars

\* a commit has ended a transaction that released no lock in it
C8_Witness ==
    ret.op = "commit" /\ ret.val = "ok" /\ txn_state[ret.txn] = "COMMITTED"

\* the live rids of the file in (page_no, slot_no) order
RECURSIVE LiveFrom(_, _, _)
LiveFrom(f, page_no, slot_no) ==
    IF page_no >= f.hdr.num_pages THEN <<>>
    ELSE IF slot_no >= NumRecordsPerPage THEN LiveFrom(f, page_no + 1, 0)
    ELSE (IF f.pages[page_no].bitmap[slot_no + 1]
          THEN <<[page_no |-> page_no, slot_no |-> slot_no]>> ELSE <<>>)
         \o LiveFrom(f, page_no, slot_no + 1)

Live(f) == LiveFrom(f, RM_FIRST_RECORD_PAGE, 0)

\* C9: a forward scan of an unmodified file yields the live rids in
\* increasing order, each once and no other, and then is_end() holds; with no
\* live record is_end() holds right after construction.
C9_ScanYieldsLive ==
    scan.open =>
        LET live == Live(File)
            n    == Len(scan.out)
        IN  /\ n <= Len(live)
            /\ scan.out = SubSeq(live, 1, n)
            /\ IF n = Len(live) THEN is_end(scan.rid_)
               ELSE scan.rid_ = live[n + 1]

\* a scan has ended after yielding records of two pages that lie around an
\* empty page and a hole
C9_Witness ==
    /\ scan.open /\ is_end(scan.rid_)
    /\ Len(scan.out) >= 2
    /\ scan.out[1] = [page_no |-> 1, slot_no |-> 1]
    /\ scan.out[2].page_no = 3

\* C10: after rid = insert_record(buf); delete_record(rid); insert_record(buf)
\* the free list, the counts and the bitmaps are those after the first
\* insert.
C10_RoundTrip == rt.phase = 3 => Meta(File) = rt.snap

\* a round trip has ended whose inserts filled a page that was not alone on
\* the free list
C10_Witness ==
    /\ rt.phase = 3
    /\ pages[rt.rid.page_no].num_records = NumRecordsPerPage
    /\ file_hdr_.first_free_page_no # RM_NO_PAGE

\* C11: is_compatible(a, b) is the matrix on the five modes (compatible are
\* exactly IS-IS, IS-IX, IS-S, IS-SIX, IX-IX, S-S and their mirror images), it
\* gives the same for (a, b) and (b, a), and a NON_LOCK argument is compatible
\* with everything.
C11_Matrix ==
    /\ \A q \in cq :
           IF q.lhs \in LockMode /\ q.rhs \in LockMode
           THEN q.out = MatrixCompatible(q.lhs, q.rhs)
           ELSE q.out = TRUE
    /\ \A q1, q2 \in cq : (q1.lhs = q2.rhs /\ q1.rhs = q2.lhs) => q1.out = q2.out

\* both orders of an incompatible pair of different modes have been asked
C11_Witness ==
    \E q1, q2 \in cq :
        /\ q1.lhs = "S_IX" /\ q1.rhs = "INTENTION_EXCLUSIVE" /\ ~q1.out
        /\ q2.lhs = q1.rhs /\ q2.rhs = q1.lhs

\* txn t has a request on id in another mode than lock_mode
HoldsOtherMode(t, id, lock_mode) ==
    /\ id \in DOMAIN lock_table
    /\ \E i \in 1..Len(lock_table[id].request_queue_) :
           /\ lock_table[id].request_queue_[i].txn_id_ = t
           /\ lock_table[id].request_queue_[i].lock_mode_ # lock_mode

\* a granted request of another transaction on id is incompatible with lock_mode
OthersIncompatible(t, id, lock_mode) ==
    \E i \in 1..Len(lock_table[id].request_queue_) :
        LET r == lock_table[id].request_queue_[i]
        IN  r.txn_id_ # t /\ r.granted_ /\ ~MatrixCompatible(lock_mode, r.lock_mode_)

\* what the claim says of an upgrade call that is this step
UpgradeOutcome(t, id, lock_mode) ==
    IF ~OthersIncompatible(t, id, lock_mode)
    THEN /\ ret'.val = "true"
         /\ id \in DOMAIN lock_table'
         /\ LET rq == lock_table'[id].request_queue_
                mine == {i \in 1..Len(rq) : rq[i].txn_id_ = t}
            IN  /\ Cardinality(mine) = 1
                /\ \A i \in mine : rq[i].lock_mode_ = lock_mode /\ rq[i].granted_
         /\ id \in lock_set'[t]
    ELSE /\ ret'.val = "UPGRADE_CONFLICT"
         /\ UNCHANGED <<lock_table, lock_set, txn_state>>

\* C12 as stated: a lock call on an id the transaction holds in another mode
\* succeeds exactly when the granted requests of the others are compatible
\* with the new mode, leaving one granted request of txn in that mode and id
\* in lock_set; otherwise it raises UPGRADE_CONFLICT and changes nothing.
C12_UpgradeAlways ==
    [][\A t \in TxnIds, id \in LockDataIds, m \in LockMode :
          (Lock(t, id, m) /\ HoldsOtherMode(t, id, m)) => UpgradeOutcome(t, id, m)]_vars

\* C12 as amended: the same for a transaction that is not SHRINKING; a
\* SHRINKING one gets LOCK_ON_SHRINKING and nothing changes.
C12_Upgrade ==
    [][\A t \in TxnIds, id \in LockDataIds, m \in LockMode :
          (Lock(t, id, m) /\ HoldsOtherMode(t, id, m)) =>
              IF txn_state[t] # "SHRINKING" THEN UpgradeOutcome(t, id, m)
              ELSE /\ ret'.val = "LOCK_ON_SHIRINKING"
                   /\ UNCHANGED <<lock_table, lock_set, txn_state>>]_vars

\* an upgrade has been refused: the transaction still holds its old mode next
\* to the other's request
C12_Witness ==
    /\ ret.op = "lock" /\ ret.val = "UPGRADE_CONFLICT"
    /\ \E id \in DOMAIN lock_table :
           LET rq == lock_table[id].request_queue_
           IN  /\ Len(rq) = 2
               /\ \E i \in 1..2 : rq[i].txn_id_ = ret.txn /\ rq[i].lock_mode_ = "INTENTION_SHARED"
               /\ \E i \in 1..2 : rq[i].txn_id_ # ret.txn /\ rq[i].lock_mode_ = "INTENTION_EXCLUSIVE"

\* txn t has no request in the queue of id
NoRequest(t, id) ==
    id \in DOMAIN lock_table =>
        \A i \in 1..Len(lock_table[id].request_queue_) :
            lock_table[id].request_queue_[i].txn_id_ # t

\* some granted request on id is incompatible with lock_mode
GrantedIncompatible(id, lock_mode) ==
    /\ id \in DOMAIN lock_table
    /\ \E i \in 1..Len(lock_table[id].request_queue_) :
           LET r == lock_table[id].request_queue_[i]
           IN  r.granted_ /\ ~MatrixCompatible(lock_mode, r.lock_mode_)

\* a call that returns false changes nothing, and unlock returns false when
\* the queue or the transaction's request is absent
RefusedHasNoEffect ==
    /\ \A t \in TxnIds, id \in LockDataIds, m \in LockMode :
           (Lock(t, id, m) /\ ret'.val = "false") =>
               UNCHANGED <<lock_table, lock_set, txn_state>>
    /\ \A t \in TxnIds, id \in LockDataIds :
           Unlock(t, id) =>
               /\ (ret'.val = "false") = NoRequest(t, id)
               /\ ret'.val = "false" => UNCHANGED <<lock_table, lock_set, txn_state>>

\* every lock call of an existing transaction can complete at once
NeverWaits ==
    \A t \in objects, id \in LockDataIds, m \in LockMode : ENABLED Lock(t, id, m)

\* C13 as stated: lock never waits; a lock call of a transaction without a
\* request on id returns false exactly when a granted request on id is
\* incompatible with the mode; a lock or unlock call that returns false
\* leaves the lock table, lock_set and state as they were.
C13_RefusedAlways ==
    /\ []NeverWaits
    /\ [][/\ RefusedHasNoEffect
          /\ \A t \in TxnIds, id \in LockDataIds, m \in LockMode :
                 (Lock(t, id, m) /\ NoRequest(t, id)) =>
                     ((ret'.val = "false") = GrantedIncompatible(id, m))]_vars

\* C13 as amended: the same, "returns false exactly when" holding for a
\* transaction that is not SHRINKING; a SHRINKING one gets LOCK_ON_SHRINKING.
C13_Refused ==
    /\ []NeverWaits
    /\ [][/\ RefusedHasNoEffect
          /\ \A t \in TxnIds, id \in LockDataIds, m \in LockMode :
                 (Lock(t, id, m) /\ NoRequest(t, id)) =>
                     IF txn_state[t] # "SHRINKING"
                     THEN (ret'.val = "false") = GrantedIncompatible(id, m)
                     ELSE ret'.val = "LOCK_ON_SHIRINKING"]_vars

\* a lock has been refused on an id another transaction holds, while the
\* refused transaction holds another id
C13_Witness ==
    /\ ret.op = "lock" /\ ret.val = "false"
    /\ lock_set[ret.txn] # {}
    /\ \E id \in DOMAIN lock_table : NoRequest(ret.txn, id)

\* the error the claim gives a call on rid: wanted is the bit the call needs
ClaimedError(rid, wanted) ==
    IF rid.page_no < RM_FIRST_RECORD_PAGE \/ rid.page_no >= file_hdr_.num_pages
    THEN "PageNotExistError"
    ELSE IF pages[rid.page_no].bitmap[rid.slot_no + 1] # wanted THEN "RecordNotFoundError"
    ELSE "ok"

\* C14: get_record, update_record and delete_record of a rid whose bit is
\* clear and insert_record(rid, buf) on a rid whose bit is set fail with
\* RecordNotFound, each of them on a page below FIRST_RECORD_PAGE or from
\* num_pages on fails with PageNotExist, and a failing call leaves header,
\* free list, bitmaps, counts and slot bytes as they were.
C14_ErrorsKeepFile ==
    [][/\ \A rid \in Rids :
             /\ GetRecord(rid) => rm_ret'.err = ClaimedError(rid, TRUE)
             /\ DeleteRecord(rid) => rm_ret'.err = ClaimedError(rid, TRUE)
             /\ \A buf \in Bufs :
                    /\ UpdateRecord(rid, buf) => rm_ret'.err = ClaimedError(rid, TRUE)
                    /\ InsertRecordAt(rid, buf) => rm_ret'.err = ClaimedError(rid, FALSE)
       /\ rm_ret'.err # "ok" => UNCHANGED <<file_hdr_, pages>>]_vars

\* an explicit-rid insert has failed on a live slot that holds other bytes
C14_Witness ==
    /\ rm_ret.op = "insert_record_at" /\ rm_ret.err = "RecordNotFoundError"
    /\ pages[rm_ret.rid.page_no].slots[rm_ret.rid.slot_no + 1] # rm_ret.buf

\* C15: after every record-manager call, normal or failed, no page of the file
\* is left pinned by it, and the pages it handed back as dirty are the pages
\* it wrote.
C15_PinBalance ==
    /\ \A p \in DOMAIN pin_count : pin_count[p] = 0
    /\ pin_log.dirty = pin_log.wrote

\* both calls of the round have returned
BothReturned == \A i \in Threads : race.th[i].pc = "done"

\* invariants (1)-(3) of the file, and two inserts that returned have
\* returned different rids
RaceOutcome ==
    /\ FreeListHolds(File)
    /\ \A p \in DataPages(File) : PopCount(pages[p].bitmap) = pages[p].num_records
    /\ \A i \in Threads, j \in Threads :
          (/\ i # j
           /\ race.th[i].op = "insert_record" /\ race.th[i].err = "ok"
           /\ race.th[j].op = "insert_record" /\ race.th[j].err = "ok")
          => race.th[i].rid # race.th[j].rid

\* C16 as claimed: whatever the interleaving of the two calls' steps, the
\* invariants hold and two inserts returned distinct rids once both returned.
C16_Interleaved == BothReturned => RaceOutcome

\* C16: when the two calls did not overlap, the invariants hold and two
\* inserts returned distinct rids once both calls have returned.
C16_Serialised == (BothReturned /\ ~race.overlap) => RaceOutcome

\* two inserts, one after the other, have both returned a rid
C16_Witness ==
    /\ BothReturned /\ ~race.overlap
    /\ \A i \in Threads : race.th[i].op = "insert_record" /\ race.th[i].err = "ok"

\* the claim's priority order, weakest first
ClaimPriority == <<"NON_LOCK", "IS", "IX", "S", "SIX", "X">>

ClaimRank(g) == CHOOSE i \in 1..Len(ClaimPriority) : ClaimPriority[i] = g

ClaimGroupOf ==
    [m \in LockMode |->
        CASE m = "SHARED" -> "S"
          [] m = "EXLUCSIVE" -> "X"
          [] m = "INTENTION_SHARED" -> "IS"
          [] m = "INTENTION_EXCLUSIVE" -> "IX"
          [] m = "S_IX" -> "SIX"]

\* the strongest of the granted modes of a queue, NON_LOCK when none is granted
StrongestGranted(rq) ==
    LET held == {"NON_LOCK"} \cup {ClaimGroupOf[rq[k].lock_mode_] :
                                      k \in {j \in 1..Len(rq) : rq[j].granted_}}
    IN  CHOOSE g \in held : \A h \in held : ClaimRank(h) <= ClaimRank(g)

\* C17: every queue in the lock table holds at least one request, and its
\* group_lock_mode is the strongest mode among its granted requests, in the
\* order NON_LOCK < IS < IX < S < SIX < X.
C17_GroupMode ==
    \A id \in DOMAIN lock_table :
        /\ lock_table[id].request_queue_ # <<>>
        /\ lock_table[id].group_lock_mode_ = StrongestGranted(lock_table[id].request_queue_)

\* an unlock has returned true, some id has no queue, and a queue of two
\* granted requests of different modes is present
C17_Witness ==
    /\ ret.op = "unlock" /\ ret.val = "true"
    /\ \E id \in LockDataIds : id \notin DOMAIN lock_table
    /\ \E id \in DOMAIN lock_table :
          LET rq == lock_table[id].request_queue_
          IN  /\ Len(rq) = 2
              /\ rq[1].granted_ /\ rq[2].granted_
              /\ rq[1].lock_mode_ # rq[2].lock_mode_

\* the last call was an insert_record(buf) that filled its page
FilledByInsert ==
    /\ rm_ret.op = "insert_record" /\ rm_ret.err = "ok"
    /\ pages[rm_ret.rid.page_no].num_records = NumRecordsPerPage

\* the page that insert_record(buf) has just filled is off the free list
FilledLeavesList ==
    FilledByInsert =>
        /\ pages[rm_ret.rid.page_no].next_free_page_no = RM_NO_PAGE
        /\ \A k \in 1..Len(FreeList(File)) : FreeList(File)[k] # rm_ret.rid.page_no

\* C18 as claimed: an insert_record(buf) that fills a page takes it off the
\* free list, and the insert_record(buf) that follows it always allocates a
\* new page.
C18_AlwaysAllocates ==
    /\ []FilledLeavesList
    /\ [][\A buf \in Bufs :
            (FilledByInsert /\ InsertRecord(buf)) =>
                file_hdr_'.num_pages = file_hdr_.num_pages + 1]_vars

\* C18: an insert_record(buf) that fills a page takes it off the free list;
\* the insert_record(buf) that follows it allocates a new page when the free
\* list has become empty, and otherwise takes a slot of the new head page.
C18_PageFull ==
    /\ []FilledLeavesList
    /\ [][\A buf \in Bufs :
            (FilledByInsert /\ InsertRecord(buf)) =>
                IF file_hdr_.first_free_page_no = RM_NO_PAGE
                THEN /\ file_hdr_'.num_pages = file_hdr_.num_pages + 1
                     /\ rm_ret'.rid = [page_no |-> file_hdr_.num_pages, slot_no |-> 0]
                     /\ NumRecordsPerPage > 1 =>
                            /\ file_hdr_'.first_free_page_no = file_hdr_.num_pages
                            /\ pages'[file_hdr_.num_pages].next_free_page_no = RM_NO_PAGE
                ELSE /\ file_hdr_'.num_pages = file_hdr_.num_pages
                     /\ rm_ret'.rid.page_no = file_hdr_.first_free_page_no]_vars

\* inserts alone have filled page 1 and the next one has opened page 2
C18_Witness ==
    /\ rm_ret.op = "insert_record" /\ rm_ret.rid = [page_no |-> 2, slot_no |-> 0]
    /\ file_hdr_.num_pages = 3 /\ file_hdr_.first_free_page_no = 2
    /\ pages[1].num_records = NumRecordsPerPage
    /\ pages[1].next_free_page_no = RM_NO_PAGE

\* the claim's inverse of one write record
ClaimInverse(f, w) ==
    CASE w.wtype = "INSERT_TUPLE" -> delete_record(f, w.rid).f
      [] w.wtype = "DELETE_TUPLE" -> insert_record_at(f, w.rid, w.rec).f
      [] w.wtype = "UPDATE_TUPLE" -> update_record(f, w.rid, w.rec).f

\* the file after the inverses of ws, last record first, the records of
\* tables without a file handle left out
RECURSIVE ClaimUndo(_, _)
ClaimUndo(f, ws) ==
    IF ws = <<>> THEN f
    ELSE LET w == ws[Len(ws)]
         IN  ClaimUndo(IF w.tab \in fhs THEN ClaimInverse(f, w) ELSE f,
                       SubSeq(ws, 1, Len(ws) - 1))

\* abort leaves the file that the inverses leave, applied last record first
\* and skipping the records of tables without a file handle
AbortUndoesInReverse ==
    [][\A t \in TxnIds :
          Abort(t) => (/\ [hdr |-> file_hdr_', pages |-> pages'] = ClaimUndo(File, write_set[t])
                       /\ write_set'[t] = <<>>
                       /\ ret'.val \in {"ok", "released"})]_vars

\* C19: abort undoes the write-set in reverse order with the inverse of each
\* record, skips the records whose table has no file handle, and then has
\* released every lock of the transaction and set its state to ABORTED.
C19_AbortUndoesAndReleases ==
    [][\A t \in TxnIds :
          Abort(t) => (/\ [hdr |-> file_hdr_', pages |-> pages'] = ClaimUndo(File, write_set[t])
                       /\ write_set'[t] = <<>>
                       /\ \A id \in DOMAIN lock_table' :
                              FirstOf(lock_table'[id].request_queue_, t) = 0
                       /\ lock_set'[t] = {}
                       /\ txn_state'[t] = "ABORTED")]_vars

\* C20: a lock call that adds or upgrades a granted request, or adds an id to
\* the transaction's lock_set, is made by a transaction in state DEFAULT or
\* GROWING; none is granted to a transaction that has committed or aborted.
C20_GrantOnlyWhileActive ==
    [][\A t \in TxnIds, id \in LockDataIds, m \in LockMode :
          (Lock(t, id, m) /\ (lock_table' # lock_table \/ lock_set' # lock_set))
              => txn_state[t] \in {"DEFAULT", "GROWING"}]_vars

\* the mode of t's granted request on id in lock table tbl, NON_LOCK when
\* it has none
HeldMode(tbl, t, id) ==
    IF id \in DOMAIN tbl /\ FirstOf(tbl[id].request_queue_, t) # 0
       /\ tbl[id].request_queue_[FirstOf(tbl[id].request_queue_, t)].granted_
    THEN ClaimGroupOf[tbl[id].request_queue_[FirstOf(tbl[id].request_queue_, t)].lock_mode_]
    ELSE "NON_LOCK"

\* C21: a lock call that returns true leaves the transaction with a request
\* on the id at least as strong, in the order IS < IX < S < SIX < X, as the
\* granted request it held on that id before the call.
C21_NeverWeakens ==
    [][\A t \in TxnIds, id \in LockDataIds, m \in LockMode :
          (/\ Lock(t, id, m)
           /\ HeldMode(lock_table, t, id) # "NON_LOCK"
           /\ ret'.val = "true")
          => ClaimRank(HeldMode(lock_table', t, id)) >= ClaimRank(HeldMode(lock_table, t, id))]_vars

=============================================================================
